---- MODULE Spec2Model ----
(***************************************************************************)
(* tl-pack: a self-describing binary codec (BinaryWriter / BinaryReader)   *)
(* with a string dictionary, repeat compression and a stream framing.      *)
(*                                                                         *)
(* Host values are tagged records.  Reference types (vectors, maps, dates, *)
(* other objects) carry an identity `id`, because the writer compares the  *)
(* last written value with `===`.  Numbers are IEEE doubles restricted to  *)
(* multiples of 1/2 and kept as  hi * 2^16 + lo + half/2  so that values   *)
(* beyond 32 bits can be handled.  Strings are sequences of UTF-16 code    *)
(* units.  Bytes are 0..255.                                               *)
(***************************************************************************)
EXTENDS Integers, Sequences, FiniteSets, TLC

(***************************************************************************)
(* constants.ts: CORE_TYPES                                                *)
(***************************************************************************)
None == 0
Binary == 1
BoolFalse == 2
BoolTrue == 3
Null == 4
Date == 5
Vector == 6
VectorDynamic == 7
Int32 == 8
Int16 == 9
Int8 == 10
UInt32 == 11
UInt16 == 12
UInt8 == 13
Float == 14
Double == 15
Map == 16
DictValue == 17
DictIndex == 18
String == 19
Repeat == 20
GZIP == 25

\* new Set([BoolFalse, BoolTrue, Null])
NO_CONSTRUCTOR == {BoolFalse, BoolTrue, Null}

\* new Set([CORE_TYPES.String])
SUPPORT_COMPRESSION == {String}

(***************************************************************************)
(* Bounds of the model                                                     *)
(***************************************************************************)
\* longest flat vector / map drawn as an input of the round trip
MaxElems == 3
\* longest vector of nested containers drawn as an input of the round trip
MaxNest == 3
\* longest run of equal scalars written into one vector
MaxRun == 257
\* most values written between startDynamicVector and endDynamicVector
MaxDyn == 2
\* number of encode calls on one writer in the stream specification
MaxFrames == 3
\* most extensions registered on a writer and a reader
MaxExts == 2
\* most records written to a TLEncode transform
MaxRecords == 2
\* largest integer handed to createExtension as a token, besides a few beyond 16 bits
MaxToken == 300
\* longest vector with absent elements
MaxSparse == 4
\* largest small count of a hand-made Repeat, besides those around 254
MaxCopies == 3
\* longest string handed to writeString, in code units
MaxString == 130
\* longest word list handed to the Dictionary constructor
MaxWords == 2
\* most maybeInsert calls on one Dictionary
MaxInserts == 3
\* most values encoded by one writer built with the gzip option
MaxGzip == 3
\* most allocate calls of a host on one writer, and most bytes it writes
MaxAllocs == 2

(***************************************************************************)
(* JavaScript numbers                                                      *)
(***************************************************************************)
Num(hi, lo, half) == [hi |-> hi, lo |-> lo, half |-> half]

\* the number denoted by a (32-bit) integer n
NumOfInt(n) == Num(n \div 65536, n % 65536, 0)

NumIsInt(v) == v.half = 0

NumLess(a, b) ==
    \/ a.hi < b.hi
    \/ a.hi = b.hi /\ a.lo < b.lo
    \/ a.hi = b.hi /\ a.lo = b.lo /\ a.half < b.half

NumLeq(a, b) == a = b \/ NumLess(a, b)

NumNeg(v) ==
    LET borrow == IF v.lo = 0 /\ v.half = 0 THEN 0 ELSE 1
        lo2    == IF v.half = 1 THEN 65535 - v.lo ELSE (65536 - v.lo) % 65536
    IN  Num(0 - v.hi - borrow, lo2, v.half)

\* ToIntegerOrInfinity: truncation towards zero
Trunc(v) ==
    IF v.half = 1 /\ v.hi < 0
    THEN IF v.lo = 65535 THEN Num(v.hi + 1, 0, 0) ELSE Num(v.hi, v.lo + 1, 0)
    ELSE Num(v.hi, v.lo, 0)

\* ToInt32: truncate, then wrap modulo 2^32 into -2^31 .. 2^31-1
ToInt32(v) ==
    LET Wrap(t) == (((t.hi + 32768) % 65536) - 32768) * 65536 + t.lo
    IN  Wrap(Trunc(v))

\* value * 1000 (Date construction from seconds)
NumTimes1000(v) ==
    LET low == v.lo * 1000 + v.half * 500
    IN  Num(v.hi * 1000 + (low \div 65536), low % 65536, 0)

(***************************************************************************)
(* Host values                                                             *)
(***************************************************************************)
VBool(b) == [t |-> "boolean", b |-> b]
VNull == [t |-> "null"]
VNum(n) == [t |-> "number", n |-> n]
VInt(i) == VNum(NumOfInt(i))
VStr(s) == [t |-> "string", s |-> s]
VVec(id, e) == [t |-> "array", id |-> id, e |-> e]
VMap(id, k, v) == [t |-> "object", id |-> id, k |-> k, v |-> v]
VDate(id, ms) == [t |-> "date", id |-> id, ms |-> ms]
VUndef == [t |-> "undefined"]
\* an object that is neither null, a Date, an array nor a plain object
VOther(id) == [t |-> "other", id |-> id]

\* an instance of a host class `cls` with one field `x`, a byte
VInstance(id, cls, x) == [t |-> "instance", id |-> id, cls |-> cls, x |-> x]

\* const noop = Symbol()
noop == [t |-> "symbol"]

(***************************************************************************)
(* helpers: coreType.  Two snapshots of helpers exist in the repository;   *)
(* the build decides which one BinaryWriter imports.                       *)
(***************************************************************************)
Builds == {"guarded", "legacy"}

InRange(v, lo, hi) == NumLeq(lo, v) /\ NumLeq(v, hi)

\* the range tests shared by both snapshots, in source order
NumberRangeType(v, fallback) ==
    LET zero == NumOfInt(0)
    IN  IF InRange(v, zero, NumOfInt(255)) THEN UInt8
        ELSE IF InRange(v, zero, NumOfInt(65535)) THEN UInt16
        ELSE IF InRange(v, zero, Num(65535, 65535, 0)) THEN UInt32
        ELSE IF InRange(v, NumOfInt(0 - 128), NumOfInt(127)) THEN Int8
        ELSE IF InRange(v, NumOfInt(0 - 32768), NumOfInt(32767)) THEN Int16
        ELSE IF InRange(v, Num(0 - 32768, 0, 0), Num(32767, 65535, 0)) THEN Int32
        ELSE fallback

coreTypeObject(value) ==
    CASE value.t = "string" -> String
      [] value.t = "boolean" -> IF value.b THEN BoolTrue ELSE BoolFalse
      [] value.t = "null" -> Null
      [] value.t = "date" -> Date
      [] value.t = "array" -> Vector
      [] value.t = "object" -> Map
      [] OTHER -> None

\* unnamed/part_000: integer types only when value >> 0 === value
coreType(value) ==
    IF value.t = "number"
    THEN IF NumOfInt(ToInt32(value.n)) = value.n
         THEN NumberRangeType(value.n, Double)
         ELSE Double
    ELSE coreTypeObject(value)

\* src/helpers.ts: range tests without the integrality guard
coreTypeLegacy(value) ==
    IF value.t = "number"
    THEN NumberRangeType(value.n, Double)
    ELSE coreTypeObject(value)

coreTypeOf(build, value) ==
    IF build = "legacy" THEN coreTypeLegacy(value) ELSE coreType(value)

(***************************************************************************)
(* extension.ts.  An extension is its token and the pair of handlers the   *)
(* host wrote, named by `cls`: the class whose instances they serve.        *)
(***************************************************************************)
NoExtension == [token |-> 0 - 2, cls |-> "none"]

\* a token test that lets 255 through
createExtensionUpTo255(token, cls) ==
    IF token # NumOfInt(0 - 1)
       /\ (NumLess(NumOfInt(255), token) \/ NumLess(token, NumOfInt(0))
           \/ NumOfInt(ToInt32(token)) # token)
    THEN [err |-> "TypeError", v |-> NoExtension]
    ELSE IF token # NumOfInt(0 - 1) /\ NumLess(token, NumOfInt(35))
    THEN [err |-> "TypeError", v |-> NoExtension]
    ELSE [err |-> "none", v |-> [token |-> ToInt32(token), cls |-> cls]]

\* the TypeError thrown, or the extension returned
createExtension(token, cls) ==
    IF token # NumOfInt(0 - 1)
       /\ (NumLess(NumOfInt(254), token) \/ NumLess(token, NumOfInt(0))
           \/ NumOfInt(ToInt32(token)) # token)
    THEN [err |-> "TypeError", v |-> NoExtension]
    ELSE IF token # NumOfInt(0 - 1) /\ NumLess(token, NumOfInt(35))
    THEN [err |-> "TypeError", v |-> NoExtension]
    ELSE [err |-> "none", v |-> [token |-> ToInt32(token), cls |-> cls]]

\* this.extensions after options.extensions.forEach(ext => this.extensions.set(ext.token, ext)):
\* the values of the Map in iteration order
RECURSIVE Registered(_)
Registered(extensions) ==
    LET Set(map, ext) ==
            IF \E i \in 1..Len(map) : map[i].token = ext.token
            THEN [i \in 1..Len(map) |-> IF map[i].token = ext.token THEN ext ELSE map[i]]
            ELSE Append(map, ext)
    IN  IF extensions = <<>> THEN <<>>
        ELSE Set(Registered(SubSeq(extensions, 1, Len(extensions) - 1)),
                 extensions[Len(extensions)])

\* a lookup that takes the first extension whose token is not above the tag
extensionsGetAtMost(extensions, token) ==
    IF \E i \in 1..Len(extensions) : extensions[i].token <= token
    THEN extensions[CHOOSE i \in 1..Len(extensions) : extensions[i].token <= token]
    ELSE NoExtension

\* this.extensions.get(token), NoExtension for undefined
extensionsGet(extensions, token) ==
    IF \E i \in 1..Len(extensions) : extensions[i].token = token
    THEN extensions[CHOOSE i \in 1..Len(extensions) : extensions[i].token = token]
    ELSE NoExtension

(***************************************************************************)
(* Dictionary                                                              *)
(***************************************************************************)
\* a lookup that found nothing (undefined)
NoIndex == 0 - 1
NoWord == <<0 - 1>>

RECURSIVE DictFill(_, _)
DictFill(d, values) ==
    IF values = <<>> THEN d
    ELSE LET word == Head(values)
             d2 == IF word \in DOMAIN d.map THEN d
                   ELSE [d EXCEPT !.map   = [x \in DOMAIN d.map \cup {word} |->
                                                IF x = word THEN d.count ELSE d.map[x]],
                                  !.count = d.count + 1,
                                  !.index = Append(d.index, word)]
         IN  DictFill(d2, Tail(values))

NewDictionary(values, offset) ==
    DictFill([count |-> 0, map |-> <<>>, index |-> <<>>, offset |-> offset], values)

DictSize(d) == d.count

\* an insert without the has(word) test
maybeInsertAlways(d, word) ==
    [d EXCEPT !.map   = [x \in DOMAIN d.map \cup {word} |->
                            IF x = word THEN d.count ELSE d.map[x]],
              !.count = d.count + 1,
              !.index = Append(d.index, word)]

\* the dictionary after maybeInsert(word)
maybeInsert(d, word) ==
    IF word \in DOMAIN d.map THEN d
    ELSE [d EXCEPT !.map   = [x \in DOMAIN d.map \cup {word} |->
                                 IF x = word THEN d.count ELSE d.map[x]],
                   !.count = d.count + 1,
                   !.index = Append(d.index, word)]

\* what maybeInsert(word) returns
maybeInsertResult(d, word) ==
    IF word \in DOMAIN d.map THEN NoIndex
    ELSE (d.count + 1) + d.offset

getValue(d, index) ==
    IF index - d.offset >= 0 /\ index - d.offset < Len(d.index)
    THEN d.index[index - d.offset + 1]
    ELSE NoWord

\* an index relative to the dictionary, without its offset
getIndexRelative(d, value) ==
    IF value \in DOMAIN d.map THEN d.map[value] ELSE NoIndex

getIndex(d, value) ==
    IF value \in DOMAIN d.map THEN d.map[value] + d.offset ELSE NoIndex

(***************************************************************************)
(* UTF-8 (TextEncoder / Buffer.utf8Write, TextDecoder)                     *)
(***************************************************************************)
\* the bytes of one code unit below 0x800
Utf8OfUnit(c) ==
    IF c < 128 THEN <<c>>
    ELSE <<192 + (c \div 64), 128 + (c % 64)>>

\* the bytes of each code unit, in order (split in halves, which keeps the
\* evaluation of long strings shallow)
RECURSIVE Utf8Bytes(_)
Utf8Bytes(s) ==
    IF s = <<>> THEN <<>>
    ELSE IF Len(s) = 1 THEN Utf8OfUnit(s[1])
    ELSE Utf8Bytes(SubSeq(s, 1, Len(s) \div 2))
             \o Utf8Bytes(SubSeq(s, (Len(s) \div 2) + 1, Len(s)))

\* TextDecoder.decode: malformed input decodes to U+FFFD
RECURSIVE bytesToUtf8(_)
bytesToUtf8(bytes) ==
    IF bytes = <<>> THEN <<>>
    ELSE LET b == Head(bytes)
         IN  IF b < 128 THEN <<b>> \o bytesToUtf8(Tail(bytes))
             ELSE IF /\ b >= 194 /\ b < 224 /\ Len(bytes) >= 2
                     /\ bytes[2] >= 128 /\ bytes[2] < 192
                  THEN <<(b - 192) * 64 + (bytes[2] - 128)>>
                           \o bytesToUtf8(SubSeq(bytes, 3, Len(bytes)))
                  ELSE <<65533>> \o bytesToUtf8(Tail(bytes))

(***************************************************************************)
(* IEEE-754 binary64, as float64[0] = value / int32[0..1] expose it        *)
(***************************************************************************)
RECURSIVE BitsOf(_, _)
\* the `width` low bits of n >= 0, most significant first
BitsOf(n, width) ==
    IF width = 0 THEN <<>> ELSE Append(BitsOf(n \div 2, width - 1), n % 2)

RECURSIVE BitsValue(_)
BitsValue(bits) ==
    IF bits = <<>> THEN 0
    ELSE 2 * BitsValue(SubSeq(bits, 1, Len(bits) - 1)) + bits[Len(bits)]

Zeros(n) == [i \in 1..n |-> 0]

\* index of the first 1 in bits (Len + 1 when there is none)
FirstOne(bits) ==
    IF \E i \in 1..Len(bits) : bits[i] = 1
    THEN CHOOSE i \in 1..Len(bits) : bits[i] = 1 /\ \A j \in 1..(i - 1) : bits[j] = 0
    ELSE Len(bits) + 1

\* the 64 bits of the double holding v, sign bit first: the 48 bits of the
\* magnitude (31 of hi, 16 of lo, the half), normalised at its first 1
DoubleBits(v) ==
    LET Magnitude(m) == BitsOf(m.hi, 31) \o BitsOf(m.lo, 16) \o <<m.half>>
        Fields(neg, mag, p) ==
            IF p > 48 THEN Zeros(64)
            ELSE <<IF neg THEN 1 ELSE 0>>
                     \o BitsOf((47 - p) + 1023, 11)
                     \o SubSeq(mag, p + 1, 48) \o Zeros(52 - (48 - p))
        Normalised(neg, mag) == Fields(neg, mag, FirstOne(mag))
    IN  Normalised(v.hi < 0, Magnitude(IF v.hi < 0 THEN NumNeg(v) ELSE v))

\* the 8 bytes, little-endian
DoubleBytes(v) ==
    LET Bytes(bits) ==
            [k \in 1..8 |-> BitsValue(SubSeq(bits, 64 - 8 * k + 1, 64 - 8 * (k - 1)))]
    IN  Bytes(DoubleBits(v))

\* the number a double denotes; NaN stands for every double outside the modelled range
NaN == [hi |-> 0, lo |-> 0, half |-> 2]

DoubleValue(bytes) ==
    LET Bits(b) == [i \in 1..64 |-> BitsOf(b[8 - ((i - 1) \div 8)], 8)[((i - 1) % 8) + 1]]
        OfMagnitude(mag) ==
            Num(BitsValue(SubSeq(mag, 1, 31)), BitsValue(SubSeq(mag, 32, 47)), mag[48])
        Signed(neg, m) == IF neg THEN NumNeg(m) ELSE m
        Fields(neg, mant, p) ==
            IF p < 2 \/ p > 48 \/ (\E i \in (48 - p + 1)..52 : mant[i] = 1) THEN NaN
            ELSE Signed(neg, OfMagnitude(Zeros(p - 1) \o <<1>> \o SubSeq(mant, 1, 48 - p)))
        Value(bits) ==
            IF \A i \in 2..64 : bits[i] = 0 THEN Num(0, 0, 0)
            ELSE Fields(bits[1] = 1, SubSeq(bits, 13, 64),
                        47 - (BitsValue(SubSeq(bits, 2, 12)) - 1023))
    IN  Value(Bits(bytes))

\* the number a float32 denotes, from its 4 bytes, little-endian
FloatValue(bytes) ==
    LET Bits(b) == [i \in 1..32 |-> BitsOf(b[4 - ((i - 1) \div 8)], 8)[((i - 1) % 8) + 1]]
        OfMagnitude(mag) ==
            Num(BitsValue(SubSeq(mag, 1, 31)), BitsValue(SubSeq(mag, 32, 47)), mag[48])
        Signed(neg, m) == IF neg THEN NumNeg(m) ELSE m
        Fields(neg, mant, p) ==
            IF p < 2 \/ p > 48 \/ (\E i \in (48 - p + 1)..23 : mant[i] = 1) THEN NaN
            ELSE Signed(neg, OfMagnitude(SubSeq(Zeros(p - 1) \o <<1>> \o mant \o Zeros(48),
                                                1, 48)))
        Value(bits) ==
            IF \A i \in 2..32 : bits[i] = 0 THEN Num(0, 0, 0)
            ELSE Fields(bits[1] = 1, SubSeq(bits, 10, 32),
                        47 - (BitsValue(SubSeq(bits, 2, 9)) - 127))
    IN  Value(Bits(bytes))

(***************************************************************************)
(* BinaryWriter.  A writer is a record; `target` holds the bytes of the    *)
(* buffer that have been written (the rest of the `cap` bytes is whatever  *)
(* the allocation left there), and `err` is the exception thrown, if any.  *)
(* `wired` is a history of the tags wireDictionary has emitted, with the   *)
(* word of each, `repeated` of the values writeRepeat has stood for, and   *)
(* `cutOff` of the bytes that lay between the count of a run and the       *)
(* offset when writeRepeat moved the offset back to the count; no          *)
(* operation reads them.  `extensions` is the Map of the registered     *)
(* extensions, empty unless options.extensions is given.                   *)
(***************************************************************************)
\* a byte of the buffer that was allocated and never written
Uninit == 0 - 1

NoRepeat == [on |-> FALSE, offset |-> 0, count |-> 0]

\* new BinaryWriter({ dictionary: seed }) on the given build of helpers
NewWriter(seed, build) ==
    LET Of(dictionary) ==
            [ target |-> <<>>, cap |-> 8192, offset |-> 0,
              last |-> noop, repeat |-> NoRepeat,
              dictionary |-> dictionary,
              dictionaryExtended |-> NewDictionary(<<>>, DictSize(dictionary)),
              build |-> build, err |-> "none",
              wired |-> <<>>, repeated |-> {}, cutOff |-> <<>>,
              withGzip |-> FALSE, deflated |-> <<>>,
              extensions |-> <<>> ]
    IN  Of(NewDictionary(seed, 0))

Min(a, b) == IF a < b THEN a ELSE b
Max(a, b) == IF a > b THEN a ELSE b

\* 0x7fd00000, the value where the host has no Buffer; where it has one the
\* value is 0x100000000
MAX_BUFFER_SIZE == 2144337920

\* the new size of a large buffer is Math.round(Math.max(end * (end >
\* 0x4000000 ? 1.25 : 2), 0x400000) / 0x1000) units of 0x1000 bytes, or the
\* maximum, a whole number of these units, where that is smaller
makeRoom(w, end) ==
    LET RoundedPages ==
            IF end > 67108864
            THEN 5 * (end \div 16384) + (5 * (end % 16384) + 8192) \div 16384
            ELSE Max((end + 1024) \div 2048, 1024)
    IN  IF end > 16777216 /\ end > MAX_BUFFER_SIZE
        THEN [w EXCEPT !.err = "larger than maximum"]
        ELSE [w EXCEPT !.target = SubSeq(w.target, 1, Min(Min(end, w.cap), Len(w.target))),
                       !.cap = IF end > 16777216
                               THEN Min(MAX_BUFFER_SIZE \div 4096, RoundedPages) * 4096
                               ELSE ((Max(end * 4, w.cap - 1) \div 4096) + 1) * 4096]

allocate(w, size) ==
    IF w.cap - 10 < w.offset + size THEN makeRoom(w, w.offset + size) ELSE w

\* this.target[pos + k] = bytes[k] for each k in turn; the bytes of the
\* buffer between its written end and pos were allocated and never written
SetBytes(target, pos, bytes) ==
    IF bytes = <<>> THEN target
    ELSE [i \in 1..Max(Len(target), pos + Len(bytes)) |->
             IF i > pos /\ i <= pos + Len(bytes) THEN bytes[i - pos]
             ELSE IF i <= Len(target) THEN target[i]
             ELSE Uninit]

\* this.target[this.offset++] = b, for each b in turn
PutBytes(w, bytes) ==
    [w EXCEPT !.target = SetBytes(w.target, w.offset, bytes),
              !.offset = w.offset + Len(bytes)]

getBuffer(w) == SubSeq(w.target, 1, w.offset)

writeByte(w, value) ==
    IF w.err # "none" THEN w
    ELSE PutBytes(allocate(w, 1), <<value % 256>>)

writeBool(w, value) ==
    IF value THEN writeByte(w, BoolTrue) ELSE writeByte(w, BoolFalse)

writeNull(w) == writeByte(w, Null)

\* value, value >> 8, value >> 16, value >> 24 as a Uint8Array stores them
writeInt32(w, value) ==
    LET Bytes(i) == <<i % 256, (i \div 256) % 256, (i \div 65536) % 256,
                      (i \div 16777216) % 256>>
    IN  PutBytes(allocate(w, 4), Bytes(ToInt32(value)))

writeInt16(w, value) ==
    LET Bytes(i) == <<i % 256, (i \div 256) % 256>>
    IN  PutBytes(allocate(w, 2), Bytes(ToInt32(value)))

writeInt8(w, value) == PutBytes(allocate(w, 1), <<ToInt32(value) % 256>>)

\* float64[0] = value; writeInt32(int32[0]); writeInt32(int32[1])
writeDouble(w, value) ==
    PutBytes(allocate(allocate(allocate(w, 8), 4), 4), DoubleBytes(value))

\* value is a Date: timestamp = value.getTime()
writeDate(w, value) ==
    writeDouble(w, IF value.t = "date" THEN value.ms
                   ELSE IF value.t = "number" THEN value.n
                   ELSE NumOfInt(0))

\* 254, value % 256, (value >> 8) % 256, (value >> 16) % 256
LengthBytes(value) ==
    <<254, value % 256, (value \div 256) % 256, (value \div 65536) % 256>>

writeLength(w, value) ==
    IF w.err # "none" THEN w
    ELSE IF value < 254 THEN PutBytes(allocate(w, 1), <<value % 256>>)
    ELSE PutBytes(allocate(w, 4), LengthBytes(value))

\* the length, then the bytes at the offset
writeBytes(w, value) ==
    IF w.err # "none" THEN w
    ELSE PutBytes(allocate(writeLength(w, Len(value)), Len(value)), value)

\* pako.deflateRaw(bytes, { level: 9 }): a raw-deflate stream that inflates
\* to the bytes.  Of the streams inflateRaw accepts the model takes the
\* one stored block: the final-block header, the length and its complement
\* (16 bits each, low byte first), then the bytes.
deflateRaw(bytes) ==
    <<1, Len(bytes) % 256, (Len(bytes) \div 256) % 256,
      255 - (Len(bytes) % 256), 255 - ((Len(bytes) \div 256) % 256)>> \o bytes

\* whether the bytes are one stored block
IsStored(bytes) ==
    /\ Len(bytes) >= 5
    /\ bytes[1] = 1
    /\ bytes[2] + bytes[4] = 255
    /\ bytes[3] + bytes[5] = 255
    /\ Len(bytes) = 5 + bytes[2] + 256 * bytes[3]

\* pako.inflateRaw(bytes) of a stored block
inflateRaw(bytes) == SubSeq(bytes, 6, Len(bytes))

\* the bytes handed to deflateRaw are kept in `deflated`, which no operation
\* reads
writeGzip(w, value) ==
    IF w.err # "none" THEN w
    ELSE writeBytes([w EXCEPT !.deflated = Append(@, value)], deflateRaw(value))

\* require = strLength << 2, plus 1 or 4 for the prefix; utf8Write at the
\* offset past the prefix; the prefix at start; the offset past the data
writeString(w, value) ==
    LET Require(strLength) ==
            IF strLength * 4 < 254 THEN strLength * 4 + 1 ELSE strLength * 4 + 4
        Room(strLength) ==
            allocate([w EXCEPT !.offset = IF strLength * 4 < 254 THEN w.offset + 1
                                          ELSE w.offset + 4],
                     Require(strLength))
        Prefixed(require, bytes) ==
            IF require < 254 THEN <<bytes % 256>> ELSE LengthBytes(bytes)
        Written(w2, start, require, data) ==
            [w2 EXCEPT !.target = SetBytes(SetBytes(w2.target, start,
                                                    Prefixed(require, Len(data))),
                                           w2.offset, data),
                       !.offset = w2.offset + Len(data)]
    IN  IF w.err # "none" THEN w
        ELSE Written(Room(Len(value)), w.offset, Require(Len(value)), Utf8Bytes(value))

writeRepeat(w) ==
    LET Started(t) ==
            [t EXCEPT !.repeat = [on |-> TRUE, count |-> 0, offset |-> t.offset]]
        After(t) ==
            SubSeq(t.target,
                   t.repeat.offset + (IF t.repeat.count < 254 THEN 1 ELSE 4) + 1,
                   t.offset)
        Counted(t) ==
            writeLength([t EXCEPT !.offset = t.repeat.offset,
                                  !.repeat.count = t.repeat.count + 1,
                                  !.repeated = @ \cup {t.last},
                                  !.cutOff = @ \o After(t)],
                        t.repeat.count + 1)
    IN  Counted(IF ~w.repeat.on THEN Started(writeByte(w, Repeat)) ELSE w)

\* the key and the value of the plain object { kind: 'X' }
KindKey == <<107, 105, 110, 100>>
KindX == VStr(<<88>>)

\* whether the host's encode handler serves the value: an instance of its
\* class, or, for the handlers named "kind", an object whose kind is 'X'
hostClaims(ext, value) ==
    IF ext.cls = "kind"
    THEN value.t = "object"
         /\ \E i \in 1..Len(value.k) : value.k[i] = KindKey /\ value.v[i] = KindX
    ELSE value.t = "instance" /\ value.cls = ext.cls

\* ext.encode.call(this, value), a handler of the self-driving kind: it
\* writes one byte for a value it serves and nothing for any other; the
\* handler of a fallback extension, which gets no token byte, writes the
\* byte as a core UInt8
hostEncode(ext, w, value) ==
    IF ~hostClaims(ext, value) THEN w
    ELSE IF ext.cls = "kind" THEN writeByte(w, 120)
    ELSE IF ext.token = 0 - 1 THEN writeInt8(writeByte(w, UInt8), NumOfInt(value.x))
    ELSE writeInt8(w, NumOfInt(value.x))

\* the loop over this.extensions.values() from the i-th on, then the
\* fallback; `start` is the offset captured before this.offset++
RECURSIVE _writeCustomFrom(_, _, _, _)
_writeCustomFrom(w, value, start, i) ==
    LET Token(after, token) ==
            [w |-> [writeByte([after EXCEPT !.offset = start], token)
                        EXCEPT !.offset = after.offset],
             claimed |-> TRUE]
        Processed(after) ==
            IF start < after.offset THEN Token(after, w.extensions[i].token)
            ELSE _writeCustomFrom(after, value, start, i + 1)
        Edge(after) == [w |-> after, claimed |-> start < after.offset]
        Fallback(w1, edgeExt) ==
            IF edgeExt = NoExtension THEN [w |-> w1, claimed |-> FALSE]
            ELSE Edge(hostEncode(edgeExt, w1, value))
    IN  IF i > Len(w.extensions)
        THEN Fallback([w EXCEPT !.offset = start], extensionsGet(w.extensions, 0 - 1))
        ELSE IF w.extensions[i].token = 0 - 1
        THEN _writeCustomFrom(w, value, start, i + 1)
        ELSE Processed(hostEncode(w.extensions[i], w, value))

\* const start = this.offset; this.allocate(1); this.offset++; the loop
_writeCustom(w, value) ==
    _writeCustomFrom([allocate(w, 1) EXCEPT !.offset = w.offset + 1], value, w.offset, 1)

RECURSIVE writeObject(_, _)
RECURSIVE writeCore(_, _, _)
RECURSIVE wireDictionary(_, _)
RECURSIVE writeObjectGzip(_, _)
RECURSIVE writeVectorFrom(_, _, _, _)
RECURSIVE writeMapFrom(_, _, _)

writeVector(w, value) ==
    writeVectorFrom(writeLength(w, Len(value.e)), value, 1, Len(value.e))

\* the loop body for i = from .. to, in order (split in halves, which keeps
\* the evaluation of long vectors shallow)
writeVectorFrom(w, value, from, to) ==
    IF from > to \/ w.err # "none" THEN w
    ELSE IF from = to
    THEN IF value.e[from] = VUndef THEN writeNull(w) ELSE writeObject(w, value.e[from])
    ELSE writeVectorFrom(writeVectorFrom(w, value, from, (from + to) \div 2),
                         value, ((from + to) \div 2) + 1, to)

writeMap(w, object) ==
    writeByte(writeMapFrom(w, object, 1), None)

writeMapFrom(w, object, i) ==
    IF i > Len(object.k) \/ w.err # "none" THEN w
    ELSE IF object.v[i] = VUndef THEN writeMapFrom(w, object, i + 1)
    ELSE writeMapFrom(
             writeObject(wireDictionary([w EXCEPT !.last = noop], object.k[i]),
                         object.v[i]),
             object, i + 1)

wireDictionary(w, value) ==
    LET Lookup(seeded) ==
            IF seeded = NoIndex THEN getIndex(w.dictionaryExtended, value) ELSE seeded
        Wire(idx) ==
            IF idx = NoIndex
            THEN writeCore([w EXCEPT !.dictionaryExtended = maybeInsert(@, value),
                                     !.wired = Append(@, <<DictValue, value>>)],
                           DictValue, value)
            ELSE writeCore([w EXCEPT !.wired = Append(@, <<DictIndex, value>>)],
                           DictIndex, idx)
    IN  IF w.err # "none" THEN w
        ELSE Wire(Lookup(getIndex(w.dictionary, value)))

\* a threshold of 15 code units
shortStringBelow16(value) == Len(value.s) <= 15

\* write short strings into dictionary
shortString(value) == Len(value.s) <= 16

\* a child that keeps the dictionaries it was constructed with
writeObjectGzipOwnDictionary(w, value) ==
    LET Parent(child) ==
            IF child.err # "none" THEN [w EXCEPT !.err = child.err]
            ELSE writeCore(w, GZIP, getBuffer(child))
    IN  Parent(writeObject([NewWriter(<<>>, w.build) EXCEPT !.extensions = w.extensions],
                           value))

\* new BinaryWriter(), given this writer's extensions and dictionaries; the
\* dictionaries are the same objects, so what the child inserts this writer
\* holds; an exception of the child is this writer's
writeObjectGzip(w, value) ==
    LET Child ==
            [NewWriter(<<>>, w.build) EXCEPT !.extensions = w.extensions,
                                             !.dictionary = w.dictionary,
                                             !.dictionaryExtended = w.dictionaryExtended]
        Parent(child) ==
            IF child.err # "none"
            THEN [w EXCEPT !.dictionaryExtended = child.dictionaryExtended,
                           !.wired = @ \o child.wired,
                           !.err = child.err]
            ELSE writeCore([w EXCEPT !.dictionaryExtended = child.dictionaryExtended,
                                     !.wired = @ \o child.wired],
                           GZIP, getBuffer(child))
    IN  Parent(writeObject(Child, value))

writeCore(w, constructorId, value) ==
    LET Case(w1) ==
            CASE constructorId = GZIP -> writeGzip(w1, value)
              [] constructorId = DictIndex -> writeLength(w1, value)
              [] constructorId = DictValue -> writeString(w1, value)
              [] constructorId \in {BoolFalse, BoolTrue} -> writeBool(w1, value.b)
              [] constructorId = Date -> writeDate(w1, value)
              [] constructorId \in {Int32, UInt32} -> writeInt32(w1, value.n)
              [] constructorId \in {Int16, UInt16} -> writeInt16(w1, value.n)
              [] constructorId \in {Int8, UInt8} -> writeInt8(w1, value.n)
              [] constructorId = Double -> writeDouble(w1, value.n)
              [] constructorId = Null -> writeNull(w1)
              [] constructorId = String ->
                     IF shortString(value)
                     THEN wireDictionary([w1 EXCEPT !.offset = w1.offset - 1], value.s)
                     ELSE writeString(w1, value.s)
              [] constructorId = Vector -> writeVector(w1, value)
              [] constructorId = Map -> writeMap(w1, value)
              [] OTHER -> w1
    IN  IF w.withGzip /\ constructorId \in SUPPORT_COMPRESSION
        THEN writeObjectGzip(w, value)
        ELSE Case(IF constructorId \notin NO_CONSTRUCTOR THEN writeByte(w, constructorId)
                  ELSE w)

writeObject(w, value) ==
    LET Custom(custom) ==
            IF custom.claimed THEN custom.w ELSE [custom.w EXCEPT !.err = "TypeError"]
        As(constructorId) ==
            IF constructorId = None THEN Custom(_writeCustom(w, value))
            ELSE IF w.last = value THEN writeRepeat(w)
            ELSE writeCore([w EXCEPT !.last = value, !.repeat = NoRepeat],
                           constructorId, value)
    IN  IF w.err # "none" \/ value = VUndef THEN w
        ELSE As(coreTypeOf(w.build, value))

\* an encode that does not reset _last and _repeat
encodeKeepingLast(w, value) ==
    writeObject([w EXCEPT !.offset = 0, !.target = <<>>, !.cap = 256, !.err = "none"],
                value)

\* the writer after encode(value); the frame returned is getBuffer of it
encode(w, value) ==
    writeObject([w EXCEPT !.offset = 0, !.last = noop, !.repeat = NoRepeat,
                          !.target = <<>>, !.cap = 256, !.err = "none"],
                value)

(***************************************************************************)
(* BinaryReader.  A reader is a record; every read returns the reader      *)
(* after it (r) and the value read (v).  `err` is the exception thrown:    *)
(* "incomplete" when the error carries the incomplete flag.  `extensions`  *)
(* is the Map of the registered extensions.                                *)
(***************************************************************************)
NoPool == [on |-> FALSE, pool |-> 0, value |-> VUndef]

\* new BinaryReader(data, { dictionary: seed })
NewReader(data, seed) ==
    LET Of(dictionary) ==
            [ target |-> data, offset |-> 0, length |-> Len(data),
              lastObject |-> VUndef, repeat |-> NoPool,
              dictionary |-> dictionary,
              dictionaryExtended |-> NewDictionary(<<>>, DictSize(dictionary)),
              err |-> "none", extensions |-> <<>> ]
    IN  Of(NewDictionary(seed, 0))

Ret(r, v) == [r |-> r, v |-> v]

\* the read threw
Threw(x) == x.r.err # "none"

assertRead(r, length) ==
    IF r.err = "none" /\ r.length < r.offset + length
    THEN [r EXCEPT !.err = "incomplete"]
    ELSE r

\* assertRead(n), then the n bytes at the offset; the offset moves past them
TakeBytes(r, n) ==
    LET At(a) ==
            IF a.err # "none" THEN Ret(a, <<>>)
            ELSE Ret([a EXCEPT !.offset = a.offset + n],
                     SubSeq(a.target, a.offset + 1, a.offset + n))
    IN  At(assertRead(r, n))

readByte(r) ==
    LET Of(t) == IF Threw(t) THEN Ret(t.r, 0) ELSE Ret(t.r, t.v[1])
    IN  Of(TakeBytes(r, 1))

\* b0 | b1 << 8 | b2 << 16 | b3 << 24, and >>> 0 when unsigned
readInt32(r, signed) ==
    LET Signed(high, low) == Num(IF high >= 32768 THEN high - 65536 ELSE high, low, 0)
        Of(t) ==
            IF Threw(t) THEN Ret(t.r, NaN)
            ELSE IF signed
            THEN Ret(t.r, Signed(t.v[3] + 256 * t.v[4], t.v[1] + 256 * t.v[2]))
            ELSE Ret(t.r, Num(t.v[3] + 256 * t.v[4], t.v[1] + 256 * t.v[2], 0))
    IN  Of(TakeBytes(r, 4))

\* b0 | b1 << 8, and (x << 16) >> 16 when signed
readInt16(r, signed) ==
    LET Signed(u) == IF u >= 32768 THEN u - 65536 ELSE u
        Of(t) ==
            IF Threw(t) THEN Ret(t.r, NaN)
            ELSE IF signed THEN Ret(t.r, NumOfInt(Signed(t.v[1] + 256 * t.v[2])))
            ELSE Ret(t.r, NumOfInt(t.v[1] + 256 * t.v[2]))
    IN  Of(TakeBytes(r, 2))

\* b0, and (x << 24) >> 24 when signed
readInt8(r, signed) ==
    LET Signed(u) == IF u >= 128 THEN u - 256 ELSE u
        Of(t) ==
            IF Threw(t) THEN Ret(t.r, NaN)
            ELSE IF signed THEN Ret(t.r, NumOfInt(Signed(t.v[1])))
            ELSE Ret(t.r, NumOfInt(t.v[1]))
    IN  Of(TakeBytes(r, 1))

\* assertRead(4); int32[0] = this.readInt32(); float32[0]
readFloat(r) ==
    LET Of(t) == IF Threw(t) THEN Ret(t.r, NaN) ELSE Ret(t.r, FloatValue(t.v))
    IN  Of(TakeBytes(r, 4))

readDouble(r) ==
    LET Of(t) == IF Threw(t) THEN Ret(t.r, NaN) ELSE Ret(t.r, DoubleValue(t.v))
    IN  Of(TakeBytes(r, 8))

readLength(r) ==
    LET Long(rest) ==
            IF Threw(rest) THEN Ret(rest.r, 0)
            ELSE Ret(rest.r, rest.v[1] + 256 * rest.v[2] + 65536 * rest.v[3])
        Of(first) ==
            IF Threw(first) THEN first
            ELSE IF first.v = 254 THEN Long(TakeBytes(first.r, 3))
            ELSE first
    IN  Of(readByte(r))

readBytes(r) ==
    LET Of(length) ==
            IF Threw(length) THEN Ret(length.r, <<>>)
            ELSE TakeBytes(length.r, length.v)
    IN  Of(readLength(r))

readString(r) ==
    LET Of(bytes) == IF Threw(bytes) THEN bytes ELSE Ret(bytes.r, bytesToUtf8(bytes.v))
    IN  Of(readBytes(r))

\* new Date(value * 1000)
readDate(r) ==
    LET Of(value) ==
            IF Threw(value) THEN Ret(value.r, VUndef)
            ELSE Ret(value.r, VDate(0, NumTimes1000(value.v)))
    IN  Of(readDouble(r))

\* the seed dictionary first, then the extended one
getDictionaryValue(r, index) ==
    LET Of(value) ==
            IF value = NoWord THEN getValue(r.dictionaryExtended, index) ELSE value
    IN  Of(getValue(r.dictionary, index))

\* the key read: v.kind is "key" (v.word), "undefined" (a miss) or "null"
readDictionary(r) ==
    LET NullKey == [kind |-> "null", word |-> <<>>]
        Hit(r1, hit) ==
            IF hit = NoWord THEN Ret(r1, [kind |-> "undefined", word |-> <<>>])
            ELSE Ret(r1, [kind |-> "key", word |-> hit])
        Index(idx) ==
            IF Threw(idx) THEN Ret(idx.r, NullKey)
            ELSE Hit(idx.r, getDictionaryValue(idx.r, idx.v))
        Value(str) ==
            IF Threw(str) THEN Ret(str.r, NullKey)
            ELSE Ret([str.r EXCEPT !.dictionaryExtended = maybeInsert(@, str.v)],
                     [kind |-> "key", word |-> str.v])
        Of(tag) ==
            IF Threw(tag) THEN Ret(tag.r, NullKey)
            ELSE IF tag.v = DictIndex THEN Index(readLength(tag.r))
            ELSE IF tag.v = DictValue THEN Value(readString(tag.r))
            ELSE IF tag.v = None THEN Ret(tag.r, NullKey)
            ELSE Ret([tag.r EXCEPT !.offset = tag.r.offset - 1], NullKey)
    IN  Of(readByte(r))

\* temp[key] = value on a plain object kept as parallel key / value lists
SetProperty(temp, key, value) ==
    IF \E i \in 1..Len(temp.k) : temp.k[i] = key
    THEN [temp EXCEPT !.v[CHOOSE i \in 1..Len(temp.k) : temp.k[i] = key] = value]
    ELSE [temp EXCEPT !.k = Append(temp.k, key), !.v = Append(temp.v, value)]

\* String(undefined), the property name a missing key turns into
UndefinedName == <<117, 110, 100, 101, 102, 105, 110, 101, 100>>

\* pako.inflateRaw of the bytes read
readGzip(r) ==
    LET Of(bytes) ==
            IF Threw(bytes) THEN bytes
            ELSE IF IsStored(bytes.v) THEN Ret(bytes.r, inflateRaw(bytes.v))
            ELSE Ret([bytes.r EXCEPT !.err = "inflate"], <<>>)
    IN  Of(readBytes(r))

\* ext.decode.call(this), the handler that goes with hostEncode: it reads
\* the byte and builds the instance, or the object { kind: 'X' }
hostDecode(ext, r) ==
    LET Of(byte) ==
            IF Threw(byte) THEN Ret(byte.r, VUndef)
            ELSE IF ext.cls = "kind" THEN Ret(byte.r, VMap(0, <<KindKey>>, <<KindX>>))
            ELSE Ret(byte.r, VInstance(0, ext.cls, byte.v))
    IN  Of(readByte(r))

RECURSIVE readObject(_)
RECURSIVE readCore(_, _)
RECURSIVE readVectorFrom(_, _)
RECURSIVE readMapFrom(_, _)
RECURSIVE readVectorDynamicFrom(_, _)

\* new BinaryReader(bytes), given this reader's extensions and
\* dictionaries, which are the same objects; its readObject() is returned
\* and its exception is this reader's
readObjectGzip(r) ==
    LET Child(r1, bytes) ==
            [NewReader(bytes, <<>>) EXCEPT !.extensions = r1.extensions,
                                           !.dictionary = r1.dictionary,
                                           !.dictionaryExtended = r1.dictionaryExtended]
        Parent(r1, read) ==
            Ret([r1 EXCEPT !.dictionaryExtended = read.r.dictionaryExtended,
                           !.err = read.r.err],
                read.v)
        Of(bytes) ==
            IF Threw(bytes) THEN Ret(bytes.r, VUndef)
            ELSE Parent(bytes.r, readObject(Child(bytes.r, bytes.v)))
    IN  Of(readGzip(r))

readVector(r) ==
    LET Items(items) ==
            IF Threw(items) THEN Ret(items.r, VUndef)
            ELSE Ret(items.r, VVec(0, items.v))
        Of(count) ==
            IF Threw(count) THEN Ret(count.r, VUndef)
            ELSE Items(readVectorFrom(count.r, count.v))
    IN  Of(readLength(r))

\* temp after `count` iterations of temp.push(this.readObject()) (split in
\* halves, which keeps the evaluation of long vectors shallow)
readVectorFrom(r, count) ==
    LET Item(item) == IF Threw(item) THEN Ret(item.r, <<>>) ELSE Ret(item.r, <<item.v>>)
        Join(items, right) ==
            IF Threw(right) THEN right ELSE Ret(right.r, items \o right.v)
        Rest(left, n) ==
            IF Threw(left) THEN left ELSE Join(left.v, readVectorFrom(left.r, n))
    IN  IF count <= 0 \/ r.err # "none" THEN Ret(r, <<>>)
        ELSE IF count = 1 THEN Item(readObject(r))
        ELSE Rest(readVectorFrom(r, count \div 2), count - (count \div 2))

readMap(r) == readMapFrom(r, VMap(0, <<>>, <<>>))

\* while (key !== null) { temp[key] = this.readObject(); key = this.readDictionary() }
readMapFrom(r, temp) ==
    LET Name(key) == IF key.kind = "undefined" THEN UndefinedName ELSE key.word
        Value(value, name) ==
            IF Threw(value) THEN Ret(value.r, VUndef)
            ELSE readMapFrom(value.r, SetProperty(temp, name, value.v))
        Key(key) ==
            IF Threw(key) THEN Ret(key.r, VUndef)
            ELSE IF key.v.kind = "null" THEN Ret(key.r, temp)
            ELSE Value(readObject(key.r), Name(key.v))
    IN  Key(readDictionary(r))

readVectorDynamic(r) == readVectorDynamicFrom(r, <<>>)

\* while (this.length > this.offset), and the throw when it ends incomplete
readVectorDynamicFrom(r, temp) ==
    LET Value(value) ==
            IF Threw(value) THEN Ret(value.r, VUndef)
            ELSE readVectorDynamicFrom(value.r, Append(temp, value.v))
        Tag(tag) ==
            IF tag.v = None THEN Ret(tag.r, VVec(0, temp))
            ELSE Value(readCore(tag.r, tag.v))
    IN  IF ~(r.length > r.offset) THEN Ret([r EXCEPT !.err = "incomplete"], VUndef)
        ELSE Tag(readByte(r))

\* a Repeat case that keeps the whole count in the pool
readCoreRepeatWholeCount(size, lastObject) ==
    IF Threw(size) THEN Ret(size.r, VUndef)
    ELSE Ret([size.r EXCEPT !.repeat = [on |-> TRUE, pool |-> size.v,
                                        value |-> lastObject]],
             lastObject)

\* this._repeat = { pool: size - 1, value: this._lastObject }
readCoreRepeat(size, lastObject) ==
    IF Threw(size) THEN Ret(size.r, VUndef)
    ELSE Ret([size.r EXCEPT !.repeat = [on |-> TRUE, pool |-> size.v - 1,
                                        value |-> lastObject]],
             lastObject)

readCore(r, constructorId) ==
    LET Number(n) == IF Threw(n) THEN Ret(n.r, VUndef) ELSE Ret(n.r, VNum(n.v))
        Bytes(bin) ==
            IF Threw(bin) THEN Ret(bin.r, VUndef)
            ELSE Ret(bin.r, [t |-> "bytes", b |-> bin.v])
        Text(str) == IF Threw(str) THEN Ret(str.r, VUndef) ELSE Ret(str.r, VStr(str.v))
    IN  CASE constructorId = None -> readObject(r)
          [] constructorId = GZIP -> readObjectGzip(r)
          [] constructorId = BoolTrue -> Ret(r, VBool(TRUE))
          [] constructorId = BoolFalse -> Ret(r, VBool(FALSE))
          [] constructorId = Vector -> readVector(r)
          [] constructorId = VectorDynamic -> readVectorDynamic(r)
          [] constructorId = Null -> Ret(r, VNull)
          [] constructorId = Binary -> Bytes(readBytes(r))
          [] constructorId = String -> Text(readString(r))
          [] constructorId = Date -> readDate(r)
          [] constructorId = Int32 -> Number(readInt32(r, TRUE))
          [] constructorId = Int16 -> Number(readInt16(r, TRUE))
          [] constructorId = Int8 -> Number(readInt8(r, TRUE))
          [] constructorId = UInt32 -> Number(readInt32(r, FALSE))
          [] constructorId = UInt16 -> Number(readInt16(r, FALSE))
          [] constructorId = UInt8 -> Number(readInt8(r, FALSE))
          [] constructorId = Float -> Number(readFloat(r))
          [] constructorId = Double -> Number(readDouble(r))
          [] constructorId = Map -> readMap(r)
          [] constructorId = Repeat -> readCoreRepeat(readLength(r), r.lastObject)
          [] OTHER -> Ret([r EXCEPT !.err = "invalid"], VUndef)

\* value = ext.decode.call(this) when an extension has the tag, else
\* value = this._lastObject = this.readCore(constructorId)
readObject(r) ==
    LET Value(value) ==
            IF Threw(value) THEN Ret(value.r, VUndef)
            ELSE Ret([value.r EXCEPT !.lastObject = value.v], value.v)
        Dispatch(tag, ext) ==
            IF ext # NoExtension THEN hostDecode(ext, tag.r)
            ELSE Value(readCore(tag.r, tag.v))
        Tag(tag) ==
            IF Threw(tag) THEN Ret(tag.r, VUndef)
            ELSE Dispatch(tag, extensionsGet(tag.r.extensions, tag.v))
    IN  IF r.err # "none" THEN Ret(r, VUndef)
        ELSE IF r.repeat.on /\ r.repeat.pool > 0
        THEN Ret([r EXCEPT !.repeat.pool = @ - 1], r.repeat.value)
        ELSE Tag(readByte([r EXCEPT !.repeat = NoPool]))

\* the reader after decode(value) and the value it returns
decode(r, value) ==
    readObject([r EXCEPT !.target = value, !.lastObject = VUndef, !.repeat = NoPool,
                         !.offset = 0, !.length = Len(value), !.err = "none"])

tellPosition(r) == r.offset

(***************************************************************************)
(* Structural equality of an input with a decoded value: identities of     *)
(* reference types are not part of it.                                     *)
(***************************************************************************)
RECURSIVE Strip(_)
Strip(v) ==
    CASE v.t = "array" -> VVec(0, [i \in 1..Len(v.e) |-> Strip(v.e[i])])
      [] v.t = "object" -> VMap(0, v.k, [i \in 1..Len(v.v) |-> Strip(v.v[i])])
      [] v.t = "date" -> VDate(0, v.ms)
      [] v.t = "instance" -> VInstance(0, v.cls, v.x)
      [] OTHER -> v

(***************************************************************************)
(* Callers of the writer API: a dynamic vector is written by               *)
(* startDynamicVector(), writeObject(x) for each x, endDynamicVector(); an  *)
(* x that is itself such a call sequence is a nested dynamic vector.       *)
(***************************************************************************)
startDynamicVector(w) == writeByte(w, VectorDynamic)

endDynamicVector(w) == writeByte(w, None)

RECURSIVE writeObjects(_, _)
RECURSIVE writeDynamic(_, _, _)
writeObjects(w, values) ==
    IF values = <<>> THEN w
    ELSE IF Head(values).t = "dynamic"
    THEN writeObjects(writeDynamic(w, Head(values).e, Head(values).closed), Tail(values))
    ELSE writeObjects(writeObject(w, Head(values)), Tail(values))

\* the call sequence on a new writer; `closed` tells whether endDynamicVector is called
writeDynamic(w, values, closed) ==
    LET End(body) == IF closed THEN endDynamicVector(body) ELSE body
    IN  End(writeObjects(startDynamicVector(w), values))

(***************************************************************************)
(* Inputs                                                                  *)
(***************************************************************************)
SeqsUpTo(S, n) == UNION {[1..k -> S] : k \in 0..n}

KeyA == <<97>>
KeyB == <<98>>

\* strings of 16 and of 17 code units, and one with a two-byte character
Str16 == [i \in 1..16 |-> 97 + (i % 3)]
Str17 == [i \in 1..17 |-> 97 + (i % 3)]
StrInputs == {<<>>, KeyA, <<97, 98, 99>>, <<233, 97>>, Str16, Str17,
              [i \in 1..17 |-> 233]}

IntInputs ==
    {NumOfInt(i) : i \in {0, 1, 7, 127, 128, 255, 256, 32767, 32768, 65535, 65536,
                          0 - 1, 0 - 128, 0 - 129, 0 - 32768, 0 - 32769}}
    \cup {Num(1, 0, 0), Num(32767, 65535, 0), Num(32768, 0, 0), Num(40000, 7, 0),
          Num(65535, 65535, 0), Num(65536, 0, 0), Num(16777216, 0, 0),
          Num(0 - 32768, 0, 0), Num(0 - 32769, 65535, 0), Num(0 - 16777216, 0, 0)}

\* numbers that are not integral: n + 1/2
HalfInputs ==
    {Num(0, 0, 1), Num(0, 1, 1), Num(0 - 1, 65535, 1), Num(0, 255, 1), Num(0, 300, 1),
     Num(1, 4464, 1), Num(0 - 1, 65335, 1), Num(40000, 0, 1), Num(65536, 0, 1),
     Num(0 - 32769, 65535, 1), Num(0 - 1, 0, 1)}

DateInputs == {VDate(9, NumOfInt(ms)) : ms \in {0, 1000, 1500, 86400000}}

Scalars ==
    {VBool(TRUE), VBool(FALSE), VNull}
    \cup {VNum(n) : n \in IntInputs \cup HalfInputs}
    \cup {VStr(s) : s \in StrInputs}
    \cup DateInputs

FlatMembers == {VBool(TRUE), VBool(FALSE), VNull, VInt(0), VInt(7), VInt(300), VInt(0 - 1)}

MapMembers == {VBool(TRUE), VNull, VInt(7), VInt(0 - 1)}

KeySeqs == {ks \in SeqsUpTo({KeyA, KeyB}, MaxElems) :
                \A i, j \in 1..Len(ks) : i # j => ks[i] # ks[j]}

FlatVectors == {VVec(1, e) : e \in SeqsUpTo(FlatMembers, MaxElems)}

FlatMaps == UNION {{VMap(1, ks, vs) : vs \in [1..Len(ks) -> MapMembers]} : ks \in KeySeqs}

\* strings as a vector element and as a map value
StringContainers ==
    UNION {{VVec(1, <<VStr(s)>>), VVec(1, <<VInt(7), VStr(s), VStr(s)>>),
            VMap(1, <<KeyA>>, <<VStr(s)>>), VMap(1, <<KeyB, KeyA>>, <<VInt(7), VStr(s)>>)}
           : s \in StrInputs}

RunLengths == (2..5) \cup (252..MaxRun)

RunScalars == {VInt(7), VInt(300), VBool(TRUE), VNull, VNum(Num(0, 1, 1)),
               VStr(<<97, 98>>), VStr(Str17), VDate(9, NumOfInt(1000))}

RunVectors == {VVec(1, [i \in 1..n |-> x]) : n \in RunLengths, x \in RunScalars}

NestedMembers == {VInt(1), VInt(2), VVec(2, <<VInt(1)>>), VVec(3, <<VInt(2), VInt(2)>>),
                  VMap(4, <<KeyA>>, <<VInt(1)>>), VVec(5, <<>>)}

NestedVectors == {VVec(1, e) : e \in SeqsUpTo(NestedMembers, MaxNest)}

DynMembers == {VInt(1), VBool(TRUE), VVec(2, <<VInt(1)>>), VMap(4, <<KeyA>>, <<VInt(1)>>),
               VStr(<<97, 98>>)}

\* startDynamicVector(); writeObject(1); endDynamicVector() inside another
DynInner == [t |-> "dynamic", id |-> 0, e |-> <<VInt(1)>>, closed |-> TRUE,
             api |-> "writeObject"]

DynScripts ==
    {[t |-> "dynamic", id |-> 0, e |-> e, closed |-> c, api |-> "writeObject"] :
         e \in SeqsUpTo(DynMembers, MaxDyn), c \in BOOLEAN}
    \cup {[t |-> "dynamic", id |-> 0, e |-> e, closed |-> TRUE, api |-> "writeObject"] :
              e \in {<<DynInner>>, <<DynInner, VInt(1)>>, <<VInt(2), DynInner>>,
                     <<VInt(1), DynInner>>, <<DynInner, DynInner>>}}

\* vectors of integers in which at least one position is absent
SparseVectors ==
    {VVec(1, e) : e \in {x \in SeqsUpTo({VInt(7), VInt(300), VUndef}, MaxSparse) :
                             \E i \in 1..Len(x) : x[i] = VUndef}}

RoundValues ==
    Scalars \cup FlatVectors \cup FlatMaps \cup StringContainers \cup RunVectors
        \cup NestedVectors \cup SparseVectors

\* an input, the build of helpers and the seed dictionary of both peers
RoundCases ==
    {<<v, "guarded", <<>>>> : v \in RoundValues}
    \cup {<<s, "guarded", <<>>>> : s \in DynScripts}
    \cup {<<VNum(n), "legacy", <<>>>> : n \in IntInputs \cup HalfInputs}
    \cup {<<v, "guarded", <<KeyA>>>> : v \in FlatMaps \cup StringContainers}

(***************************************************************************)
(* State                                                                   *)
(***************************************************************************)
VARIABLES
    seed,      \* the seed dictionary both peers were built with
    writer,    \* the BinaryWriter
    reader,    \* the BinaryReader
    inputs,    \* the values handed to the writer, in order
    frames,    \* the frame each call returned, in order
    dicts,     \* the words of the writer's extended dictionary after each call
    results,   \* what each decode call did: [err, v]
    pc,        \* "stream", or the step of the round trip of one value
    cut,       \* the length of the prefix decoded by a truncated decode
    encodeStream,  \* the TLEncode transform: its count, its option, whether it was flushed
    decodeStream,  \* the TLDecode transform: its incompleteBuffer, and, as history, the
                   \* bytes received since it last called back with a value or an
                   \* error, and whether its last call joined retained bytes
    dictionary     \* a Dictionary the host made itself, and the calls made on it

vars == <<seed, writer, reader, inputs, frames, dicts, results, pc, cut,
          encodeStream, decodeStream, dictionary>>

\* the host has made no Dictionary of its own
NoDictionary ==
    [d |-> NewDictionary(<<>>, 0), words |-> <<>>, calls |-> <<>>, assigned |-> <<>>]

\* no transform is in use
NoStreams ==
    /\ encodeStream = [count |-> 0, writeVectorWhenEmpty |-> FALSE, flushed |-> FALSE]
    /\ decodeStream = [incompleteBuffer |-> [set |-> FALSE, bytes |-> <<>>],
                       since |-> <<>>, joined |-> FALSE]

Outcome(d) == [err |-> d.r.err, v |-> d.v]

\* the reader after a decode call, and the record of what the call did
Decoded(d) ==
    /\ reader' = d.r
    /\ results' = Append(results, Outcome(d))

(***************************************************************************)
(* Round trip of one value on a new writer and a new reader                *)
(***************************************************************************)
InitRound ==
    \E c \in RoundCases :
        /\ seed = c[3]
        /\ writer = NewWriter(c[3], c[2])
        /\ reader = NewReader(<<>>, c[3])
        /\ inputs = <<c[1]>>
        /\ frames = <<>>
        /\ dicts = <<>>
        /\ results = <<>>
        /\ pc = "input"
        /\ cut = 0
        /\ dictionary = NoDictionary
        /\ NoStreams

\* frame = writer.encode(value)
RoundEncode ==
    /\ pc = "input"
    /\ inputs[1].t # "dynamic"
    /\ writer' = encode(writer, inputs[1])
    /\ frames' = IF writer'.err = "none" THEN <<getBuffer(writer')>> ELSE <<>>
    /\ dicts' = <<writer'.dictionaryExtended.index>>
    /\ pc' = IF writer'.err = "none" THEN "encoded" ELSE "threw"
    /\ UNCHANGED <<seed, dictionary, reader, inputs, results, cut>>
    /\ UNCHANGED <<encodeStream, decodeStream>>

\* startDynamicVector(); writeObject(x) ...; endDynamicVector(); getBuffer()
RoundWriteDynamic ==
    /\ pc = "input"
    /\ inputs[1].t = "dynamic"
    /\ writer' = writeDynamic(writer, inputs[1].e, inputs[1].closed)
    /\ frames' = <<getBuffer(writer')>>
    /\ dicts' = <<writer'.dictionaryExtended.index>>
    /\ pc' = "encoded"
    /\ UNCHANGED <<seed, dictionary, reader, inputs, results, cut>>
    /\ UNCHANGED <<encodeStream, decodeStream>>

\* reader.decode(frame)
RoundDecode ==
    /\ pc = "encoded"
    /\ Decoded(decode(reader, frames[1]))
    /\ pc' = "decoded"
    /\ UNCHANGED <<seed, dictionary, writer, inputs, frames, dicts, cut>>
    /\ UNCHANGED <<encodeStream, decodeStream>>

\* reader.decode(frame.subarray(0, k)) for 1 <= k <= N - 1
RoundTruncate ==
    /\ pc = "encoded"
    /\ \E k \in 1..(Len(frames[1]) - 1) :
        /\ Decoded(decode(reader, SubSeq(frames[1], 1, k)))
        /\ cut' = k
    /\ pc' = "truncated"
    /\ UNCHANGED <<seed, dictionary, writer, inputs, frames, dicts>>
    /\ UNCHANGED <<encodeStream, decodeStream>>

\* reader.decode(frame), on the reader whose decode of a prefix has thrown
RoundRetry ==
    /\ pc = "truncated"
    /\ results[1].err # "none"
    /\ Decoded(decode(reader, frames[1]))
    /\ pc' = "retried"
    /\ UNCHANGED <<seed, dictionary, writer, inputs, frames, dicts, cut>>
    /\ UNCHANGED <<encodeStream, decodeStream>>

NextRound ==
    RoundEncode \/ RoundWriteDynamic \/ RoundDecode \/ RoundTruncate \/ RoundRetry

SpecRound == InitRound /\ [][NextRound]_vars

(***************************************************************************)
(* A stream: one writer encodes value after value, one reader built with   *)
(* the same seed decodes the frames in order.                              *)
(***************************************************************************)
Seeds == {<<>>, <<KeyB>>}

StreamValues ==
    {VMap(1, ks, [i \in 1..Len(ks) |-> VInt(i)]) : ks \in KeySeqs}
    \cup {VMap(1, <<KeyA>>, <<VInt(2)>>), VMap(1, <<KeyA>>, <<VStr(<<120>>)>>)}
    \cup {VStr(KeyA), VStr(Str16), VStr(Str17)}

Init ==
    /\ seed \in Seeds
    /\ writer = NewWriter(seed, "guarded")
    /\ reader = NewReader(<<>>, seed)
    /\ inputs = <<>>
    /\ frames = <<>>
    /\ dicts = <<>>
    /\ results = <<>>
    /\ pc = "stream"
    /\ cut = 0
    /\ dictionary = NoDictionary
    /\ NoStreams

\* frame = writer.encode(value)
Encode ==
    /\ pc = "stream"
    /\ Len(inputs) < MaxFrames
    /\ \E v \in StreamValues :
        /\ writer' = encode(writer, v)
        /\ inputs' = Append(inputs, v)
        /\ frames' = Append(frames, getBuffer(writer'))
        /\ dicts' = Append(dicts, writer'.dictionaryExtended.index)
    /\ UNCHANGED <<seed, dictionary, reader, results, pc, cut>>
    /\ UNCHANGED <<encodeStream, decodeStream>>

\* reader.decode(next frame)
Decode ==
    /\ pc = "stream"
    /\ Len(results) < Len(frames)
    /\ Decoded(decode(reader, frames[Len(results) + 1]))
    /\ UNCHANGED <<seed, dictionary, writer, inputs, frames, dicts, pc, cut>>
    /\ UNCHANGED <<encodeStream, decodeStream>>

Next == Encode \/ Decode

Spec == Init /\ [][Next]_vars

(***************************************************************************)
(* Decoding bytes that no writer produced: a reader built with a seed and  *)
(* extensions decodes one hand-made frame.                                 *)
(***************************************************************************)
\* Map, DictIndex i, UInt8 1, None: the first key of a map is the index i
IndexFirst(i) == <<Map, DictIndex, i, UInt8, 1, None>>

\* Map, DictValue "a", UInt8 1, DictIndex i, UInt8 2, None
IndexSecond(i) == <<Map, DictValue, 1, 97, UInt8, 1, DictIndex, i, UInt8, 2, None>>

RawIndexes == 0..3

RawFrames ==
    {<<b>> : b \in 0..255}
    \cup {IndexFirst(i) : i \in RawIndexes} \cup {IndexSecond(i) : i \in RawIndexes}

\* the extensions handed to the reader: none, or one made by createExtension
RawExtensions ==
    {<<>>} \cup {<<createExtension(NumOfInt(tk), "X").v>> : tk \in {40, 254}}

InitRaw ==
    /\ seed \in Seeds
    /\ writer = NewWriter(seed, "guarded")
    /\ \E exts \in RawExtensions :
           reader = [NewReader(<<>>, seed) EXCEPT !.extensions = Registered(exts)]
    /\ inputs = <<>>
    /\ frames \in {<<f>> : f \in RawFrames}
    /\ dicts = <<>>
    /\ results = <<>>
    /\ pc = "encoded"
    /\ cut = 0
    /\ dictionary = NoDictionary
    /\ NoStreams

SpecRaw == InitRaw /\ [][RoundDecode]_vars

(***************************************************************************)
(* Extensions: a writer and a reader built with the same extensions encode *)
(* and decode one value.                                                   *)
(***************************************************************************)
\* the extensions the host made with createExtension: token 40 or 41, or the
\* fallback token -1, for the class X, the class Y or the objects of kind 'X'
ExtInputs ==
    {createExtension(NumOfInt(tk), cls).v : tk \in {0 - 1, 40, 41}, cls \in {"X", "Y", "kind"}}

ExtLists == SeqsUpTo(ExtInputs, MaxExts)

\* instances of X and of Y, an object no handler serves, { kind: 'X' }, and a core value
ExtValues ==
    {VInstance(1, "X", 1), VInstance(1, "X", 200), VInstance(1, "Y", 7), VOther(1),
     VMap(1, <<KindKey>>, <<KindX>>), VInt(7)}

InitExt ==
    /\ seed = <<>>
    /\ \E exts \in ExtLists :
        /\ writer = [NewWriter(seed, "guarded") EXCEPT !.extensions = Registered(exts)]
        /\ reader = [NewReader(<<>>, seed) EXCEPT !.extensions = Registered(exts)]
    /\ inputs \in {<<v>> : v \in ExtValues}
    /\ frames = <<>>
    /\ dicts = <<>>
    /\ results = <<>>
    /\ pc = "input"
    /\ cut = 0
    /\ dictionary = NoDictionary
    /\ NoStreams

NextExt == RoundEncode \/ RoundDecode

SpecExt == InitExt /\ [][NextExt]_vars

(***************************************************************************)
(* createExtension on its own: the host calls it with a token.             *)
(***************************************************************************)
\* integers around the admitted range, integers beyond 16 and 32 bits, and
\* numbers that are not integral
TokenInputs ==
    {NumOfInt(i) : i \in (0 - 3)..MaxToken}
    \cup {Num(1, 40, 0), Num(65536, 40, 0), Num(0 - 1, 40, 0), Num(0 - 65536, 40, 0),
          Num(0, 40, 1), Num(0, 34, 1), Num(0, 254, 1), Num(0 - 1, 65535, 1),
          Num(0 - 1, 65534, 1)}

InitCreate ==
    /\ seed = <<>>
    /\ writer = NewWriter(seed, "guarded")
    /\ reader = NewReader(<<>>, seed)
    /\ inputs \in {<<VNum(token)>> : token \in TokenInputs}
    /\ frames = <<>>
    /\ dicts = <<>>
    /\ results = <<>>
    /\ pc = "create"
    /\ cut = 0
    /\ dictionary = NoDictionary
    /\ NoStreams

\* createExtension(token, { encode, decode })
CreateExtension ==
    /\ pc = "create"
    /\ results' = <<createExtension(inputs[1].n, "X")>>
    /\ pc' = "created"
    /\ UNCHANGED <<seed, dictionary, writer, reader, inputs, frames, dicts, cut>>
    /\ UNCHANGED <<encodeStream, decodeStream>>

SpecCreate == InitCreate /\ [][CreateExtension]_vars

(***************************************************************************)
(* stream: TLEncode and TLDecode.  The frames TLEncode pushes travel as one *)
(* byte stream, which reaches TLDecode in chunks of any length.  A pushed   *)
(* frame is appended to `frames`, the records written to `inputs`, what     *)
(* TLDecode emits (a value, or the error it fails with) to `results`; `cut` *)
(* is the number of bytes delivered so far.                                 *)
(***************************************************************************)
NullBuffer == [set |-> FALSE, bytes |-> <<>>]

\* a _transform that leaves count alone
TLEncode_transformUncounted(enc, w, chunk) ==
    LET Pushed(w1) == [writer |-> w1, push |-> <<getBuffer(w1)>>, enc |-> enc]
    IN  Pushed(encode(w, chunk))

\* const buff = this.writer.encode(chunk); this.push(buff); this.count++
TLEncode_transform(enc, w, chunk) ==
    LET Pushed(w1) ==
            [writer |-> w1, push |-> <<getBuffer(w1)>>,
             enc |-> [enc EXCEPT !.count = enc.count + 1]]
    IN  Pushed(encode(w, chunk))

\* a _flush that does not look at count
TLEncode_flushUnconditional(enc, w) ==
    LET Pushed(w1) == [writer |-> w1, push |-> <<getBuffer(w1)>>]
    IN  IF enc.writeVectorWhenEmpty THEN Pushed(encode(w, VVec(0, <<>>)))
        ELSE [writer |-> w, push |-> <<>>]

\* if (this.count === 0 && opts.writeVectorWhenEmpty) this.push(writer.encode([]))
TLEncode_flush(enc, w) ==
    LET Pushed(w1) == [writer |-> w1, push |-> <<getBuffer(w1)>>]
    IN  IF enc.count = 0 /\ enc.writeVectorWhenEmpty THEN Pushed(encode(w, VVec(0, <<>>)))
        ELSE [writer |-> w, push |-> <<>>]

\* a _transform that retains the chunk alone, without the bytes retained before
TLDecode_transformChunkOnly(dec, r, chunk) ==
    LET Tried(d, joined) ==
            IF d.r.err = "none"
            THEN [reader |-> d.r, dec |-> [dec EXCEPT !.incompleteBuffer = NullBuffer],
                  emit |-> IF d.v \in {VNull, VUndef} THEN <<>> ELSE <<Outcome(d)>>]
            ELSE IF d.r.err = "incomplete"
            THEN [reader |-> d.r,
                  dec |-> [dec EXCEPT !.incompleteBuffer = [set |-> TRUE, bytes |-> chunk]],
                  emit |-> <<>>]
            ELSE [reader |-> d.r, dec |-> [dec EXCEPT !.incompleteBuffer = NullBuffer],
                  emit |-> <<Outcome(d)>>]
        Joined(joined) == Tried(decode(r, joined), joined)
    IN  Joined(IF dec.incompleteBuffer.set THEN dec.incompleteBuffer.bytes \o chunk
               ELSE chunk)

\* TLDecode._transform: the chunk joined to the retained bytes is decoded;
\* callback(null, value) emits the value (Transform pushes it unless it is
\* null or undefined), an incomplete error retains the bytes, and any other
\* error goes to the callback
TLDecode_transform(dec, r, chunk) ==
    LET Tried(d, joined) ==
            IF d.r.err = "none"
            THEN [reader |-> d.r, dec |-> [dec EXCEPT !.incompleteBuffer = NullBuffer],
                  emit |-> IF d.v \in {VNull, VUndef} THEN <<>> ELSE <<Outcome(d)>>]
            ELSE IF d.r.err = "incomplete"
            THEN [reader |-> d.r,
                  dec |-> [dec EXCEPT !.incompleteBuffer = [set |-> TRUE, bytes |-> joined]],
                  emit |-> <<>>]
            ELSE [reader |-> d.r, dec |-> [dec EXCEPT !.incompleteBuffer = NullBuffer],
                  emit |-> <<Outcome(d)>>]
        Joined(joined) == Tried(decode(r, joined), joined)
    IN  Joined(IF dec.incompleteBuffer.set THEN dec.incompleteBuffer.bytes \o chunk
               ELSE chunk)

\* Buffer.concat of the frames: the bytes on the wire
RECURSIVE Wire(_)
Wire(pushed) == IF pushed = <<>> THEN <<>> ELSE Head(pushed) \o Wire(Tail(pushed))

TLRecords ==
    {VInt(7), VInt(300), VMap(1, <<KeyA>>, <<VInt(1)>>), VMap(1, <<KeyB>>, <<VInt(1)>>)}

\* new TLEncode({ dictionary: seed, writeVectorWhenEmpty }) and new TLDecode()
InitTL ==
    /\ seed \in Seeds
    /\ writer = NewWriter(seed, "guarded")
    /\ reader = NewReader(<<>>, <<>>)
    /\ inputs = <<>>
    /\ frames = <<>>
    /\ dicts = <<>>
    /\ results = <<>>
    /\ pc = "tl"
    /\ cut = 0
    /\ dictionary = NoDictionary
    /\ \E option \in BOOLEAN :
           encodeStream = [count |-> 0, writeVectorWhenEmpty |-> option, flushed |-> FALSE]
    /\ decodeStream = [incompleteBuffer |-> NullBuffer, since |-> <<>>, joined |-> FALSE]

Written(t) ==
    /\ writer' = t.writer
    /\ frames' = frames \o t.push
    /\ dicts' = Append(dicts, t.writer.dictionaryExtended.index)
    /\ encodeStream' = t.enc

\* tlEncode.write(record)
WriteRecord ==
    /\ pc = "tl"
    /\ ~encodeStream.flushed
    /\ Len(inputs) < MaxRecords
    /\ \E v \in TLRecords :
        /\ Written(TLEncode_transform(encodeStream, writer, v))
        /\ inputs' = Append(inputs, v)
    /\ UNCHANGED <<seed, dictionary, reader, results, pc, cut, decodeStream>>

Flushed(t) ==
    /\ writer' = t.writer
    /\ frames' = frames \o t.push

\* tlEncode.end(): the stream calls _flush
Flush ==
    /\ pc = "tl"
    /\ ~encodeStream.flushed
    /\ Flushed(TLEncode_flush(encodeStream, writer))
    /\ encodeStream' = [encodeStream EXCEPT !.flushed = TRUE]
    /\ UNCHANGED <<seed, dictionary, reader, inputs, dicts, results, pc, cut, decodeStream>>

Delivered(t, chunk) ==
    /\ reader' = t.reader
    /\ decodeStream' = [t.dec EXCEPT
                            !.since = IF t.emit = <<>> THEN decodeStream.since \o chunk
                                      ELSE <<>>,
                            !.joined = decodeStream.incompleteBuffer.set]
    /\ results' = results \o t.emit

\* the next k bytes of the wire reach tlDecode as one chunk; a stream that
\* has failed takes no more chunks
DeliverChunk ==
    /\ pc = "tl"
    /\ \A i \in 1..Len(results) : results[i].err = "none"
    /\ \E k \in 1..(Len(Wire(frames)) - cut) :
        /\ Delivered(TLDecode_transform(decodeStream, reader,
                                        SubSeq(Wire(frames), cut + 1, cut + k)),
                     SubSeq(Wire(frames), cut + 1, cut + k))
        /\ cut' = cut + k
    /\ UNCHANGED <<seed, dictionary, writer, inputs, frames, dicts, pc, encodeStream>>

NextTL == WriteRecord \/ Flush \/ DeliverChunk

SpecTL == InitTL /\ [][NextTL]_vars

(***************************************************************************)
(* Two frames in one buffer: one writer encodes two values, and a reader   *)
(* decodes the concatenation of the frames and then calls readObject.      *)
(***************************************************************************)
PairValues ==
    {VInt(7), VInt(300), VNull, VStr(Str17), VStr(KeyA),
     VVec(1, <<VInt(7), VInt(7)>>), VVec(1, <<VInt(7), VInt(7), VInt(7)>>),
     VVec(1, <<VVec(2, <<VInt(7), VInt(7)>>), VInt(7)>>),
     VVec(1, <<VInt(7), VInt(7), VUndef, VInt(7)>>),
     VMap(1, <<KeyA>>, <<VInt(1)>>)}

InitPair ==
    /\ seed = <<>>
    /\ writer = NewWriter(seed, "guarded")
    /\ reader = NewReader(<<>>, seed)
    /\ inputs = <<>>
    /\ frames = <<>>
    /\ dicts = <<>>
    /\ results = <<>>
    /\ pc = "pair"
    /\ cut = 0
    /\ dictionary = NoDictionary
    /\ NoStreams

\* f = writer.encode(value), for the first and for the second value
PairEncode ==
    /\ pc = "pair"
    /\ Len(inputs) < 2
    /\ \E v \in PairValues :
        /\ writer' = encode(writer, v)
        /\ inputs' = Append(inputs, v)
        /\ frames' = Append(frames, getBuffer(writer'))
        /\ dicts' = Append(dicts, writer'.dictionaryExtended.index)
    /\ UNCHANGED <<seed, dictionary, reader, results, pc, cut>>
    /\ UNCHANGED <<encodeStream, decodeStream>>

\* reader.decode(Buffer.concat([f1, f2]))
PairDecode ==
    /\ pc = "pair"
    /\ Len(frames) = 2
    /\ Decoded(decode(reader, frames[1] \o frames[2]))
    /\ pc' = "first"
    /\ UNCHANGED <<seed, dictionary, writer, inputs, frames, dicts, cut>>
    /\ UNCHANGED <<encodeStream, decodeStream>>

\* reader.readObject(), after a decode that returned
PairReadObject ==
    /\ pc = "first"
    /\ results[1].err = "none"
    /\ Decoded(readObject(reader))
    /\ pc' = "second"
    /\ UNCHANGED <<seed, dictionary, writer, inputs, frames, dicts, cut>>
    /\ UNCHANGED <<encodeStream, decodeStream>>

NextPair == PairEncode \/ PairDecode \/ PairReadObject

SpecPair == InitPair /\ [][NextPair]_vars

(***************************************************************************)
(* A Dictionary by itself: the host constructs one from a word list and an *)
(* offset and calls maybeInsert on it.  `calls` records, for each call, the *)
(* word, whether the dictionary held it before, what the call returned and *)
(* what getIndex(word) returned right after; `assigned` is the index each   *)
(* word had when the dictionary first held it.                              *)
(***************************************************************************)
DictWords == {KeyA, KeyB, <<99>>}

DictOffsets == {0, 2}

\* the index of each word held, for the words not recorded yet
Assigned(d, assigned) ==
    [w \in DOMAIN d.map |-> IF w \in DOMAIN assigned THEN assigned[w] ELSE getIndex(d, w)]

InitDict ==
    /\ seed = <<>>
    /\ writer = NewWriter(seed, "guarded")
    /\ reader = NewReader(<<>>, seed)
    /\ inputs = <<>>
    /\ frames = <<>>
    /\ dicts = <<>>
    /\ results = <<>>
    /\ pc = "dictionary"
    /\ cut = 0
    /\ NoStreams
    /\ \E words \in SeqsUpTo(DictWords, MaxWords), offset \in DictOffsets :
           dictionary = [d |-> NewDictionary(words, offset), words |-> words,
                         calls |-> <<>>,
                         assigned |-> Assigned(NewDictionary(words, offset), <<>>)]

\* dictionary.maybeInsert(word); dictionary.getIndex(word)
MaybeInsert ==
    /\ pc = "dictionary"
    /\ Len(dictionary.calls) < MaxInserts
    /\ \E word \in DictWords :
           dictionary' =
               [dictionary EXCEPT
                   !.d = maybeInsert(@, word),
                   !.calls = Append(@, [word |-> word,
                                        held |-> getIndex(dictionary.d, word) # NoIndex,
                                        returned |-> maybeInsertResult(dictionary.d, word),
                                        index |-> getIndex(maybeInsert(dictionary.d, word),
                                                           word)]),
                   !.assigned = Assigned(maybeInsert(dictionary.d, word), @)]
    /\ UNCHANGED <<seed, writer, reader, inputs, frames, dicts, results, pc, cut>>
    /\ UNCHANGED <<encodeStream, decodeStream>>

SpecDict == InitDict /\ [][MaybeInsert]_vars

(***************************************************************************)
(* writeString by itself: a new writer writes one string, and a new reader *)
(* over the bytes written reads the length prefix.                         *)
(***************************************************************************)
StringLengths == {0, 1, 2, 16, 17, 62, 63, 64, 65, 84, 85, 100, 126, 127, 128, MaxString}

\* strings of one character repeated: "a", or a character of two UTF-8 bytes
LengthStrings == {[i \in 1..n |-> c] : n \in StringLengths, c \in {97, 233, 937}}

InitString ==
    /\ seed = <<>>
    /\ writer = NewWriter(seed, "guarded")
    /\ reader = NewReader(<<>>, seed)
    /\ inputs \in {<<VStr(s)>> : s \in LengthStrings}
    /\ frames = <<>>
    /\ dicts = <<>>
    /\ results = <<>>
    /\ pc = "string"
    /\ cut = 0
    /\ dictionary = NoDictionary
    /\ NoStreams

\* writer.writeString(value); writer.getBuffer()
StringWrite ==
    /\ pc = "string"
    /\ writer' = writeString(writer, inputs[1].s)
    /\ frames' = <<getBuffer(writer')>>
    /\ pc' = "written"
    /\ UNCHANGED <<seed, dictionary, reader, inputs, dicts, results, cut>>
    /\ UNCHANGED <<encodeStream, decodeStream>>

\* new BinaryReader(bytes).readLength()
StringReadLength ==
    /\ pc = "written"
    /\ Decoded(readLength(NewReader(frames[1], seed)))
    /\ pc' = "read"
    /\ UNCHANGED <<seed, dictionary, writer, inputs, frames, dicts, cut>>
    /\ UNCHANGED <<encodeStream, decodeStream>>

NextString == StringWrite \/ StringReadLength

SpecString == InitString /\ [][NextString]_vars

(***************************************************************************)
(* A hand-made Repeat: a reader over the frame of a value, a Repeat tag     *)
(* with a count, and the frame of another value is asked for object after  *)
(* object.  `inputs` holds the value and the count.                        *)
(***************************************************************************)
RepeatCounts == (0..MaxCopies) \cup {253, 254}

RepeatedValues ==
    {VInt(7), VInt(300), VBool(TRUE), VNull, VStr(Str17), VVec(1, <<VInt(1)>>)}

\* the value whose frame follows the Repeat
Following == VInt(9)

FrameOf(v) == getBuffer(encode(NewWriter(<<>>, "guarded"), v))

\* the frame of v, Repeat, the count n, the frame of Following
RepeatBuffer(v, n) ==
    FrameOf(v) \o <<Repeat>> \o getBuffer(writeLength(NewWriter(<<>>, "guarded"), n))
        \o FrameOf(Following)

InitRepeat ==
    /\ seed = <<>>
    /\ writer = NewWriter(seed, "guarded")
    /\ \E v \in RepeatedValues, n \in RepeatCounts :
           /\ inputs = <<v, VInt(n)>>
           /\ frames = <<RepeatBuffer(v, n)>>
           /\ reader = NewReader(RepeatBuffer(v, n), seed)
    /\ dicts = <<>>
    /\ results = <<>>
    /\ pc = "repeat"
    /\ cut = 0
    /\ dictionary = NoDictionary
    /\ NoStreams

\* reader.readObject(), until the value, its copies and the value after them
\* have been asked for
RepeatReadObject ==
    /\ pc = "repeat"
    /\ Len(results) < inputs[2].n.lo + 2
    /\ Decoded(readObject(reader))
    /\ UNCHANGED <<seed, dictionary, writer, inputs, frames, dicts, pc, cut>>
    /\ UNCHANGED <<encodeStream, decodeStream>>

SpecRepeat == InitRepeat /\ [][RepeatReadObject]_vars

(***************************************************************************)
(* Encodes on one writer built with the gzip option, decoded in turn       *)
(***************************************************************************)
\* strings short and long, maps with a string behind a key, vectors of
\* strings with and without a string next to its equal
GzipValues ==
    {VStr(KeyA), VStr(KeyB), VStr(Str17),
     VMap(1, <<KeyA>>, <<VStr(KeyB)>>), VMap(1, <<KeyB>>, <<VStr(KeyB)>>),
     VMap(1, <<KeyA, KeyB>>, <<VInt(7), VStr(Str17)>>),
     VVec(1, <<VStr(KeyA), VStr(KeyA)>>),
     VVec(1, <<VStr(KeyA), VStr(KeyB), VStr(KeyA)>>)}

\* new BinaryWriter({ gzip: true, dictionary: seed })
NewGzipWriter(words) == [NewWriter(words, "guarded") EXCEPT !.withGzip = TRUE]

InitGzip ==
    /\ seed \in Seeds
    /\ writer = NewGzipWriter(seed)
    /\ reader = NewReader(<<>>, seed)
    /\ inputs = <<>>
    /\ frames = <<>>
    /\ dicts = <<>>
    /\ results = <<>>
    /\ pc = "gzip"
    /\ cut = 0
    /\ dictionary = NoDictionary
    /\ NoStreams

\* frame = writer.encode(value)
GzipEncode ==
    /\ pc = "gzip"
    /\ Len(inputs) < MaxGzip
    /\ \E v \in GzipValues :
        /\ writer' = encode(writer, v)
        /\ inputs' = Append(inputs, v)
        /\ frames' = Append(frames, getBuffer(writer'))
        /\ dicts' = Append(dicts, writer'.dictionaryExtended.index)
    /\ UNCHANGED <<seed, dictionary, reader, results, pc, cut>>
    /\ UNCHANGED <<encodeStream, decodeStream>>

\* reader.decode(next frame)
GzipDecode ==
    /\ pc = "gzip"
    /\ Len(results) < Len(frames)
    /\ Decoded(decode(reader, frames[Len(results) + 1]))
    /\ UNCHANGED <<seed, dictionary, writer, inputs, frames, dicts, pc, cut>>
    /\ UNCHANGED <<encodeStream, decodeStream>>

NextGzip == GzipEncode \/ GzipDecode

SpecGzip == InitGzip /\ [][NextGzip]_vars

(***************************************************************************)
(* allocate calls of a host on one writer, between bytes it writes         *)
(***************************************************************************)
\* sizes about the margin of the first buffer, about the two thresholds of
\* makeRoom and about the maximum
AllocSizes ==
    {0, 1, 8179, 8182, 8183, 16777216, 16777217, 67108864, 67108865,
     MAX_BUFFER_SIZE - 13, MAX_BUFFER_SIZE - 10, MAX_BUFFER_SIZE - 9,
     MAX_BUFFER_SIZE, MAX_BUFFER_SIZE + 1}

InitAlloc ==
    /\ seed = <<>>
    /\ writer = NewWriter(seed, "guarded")
    /\ reader = NewReader(<<>>, seed)
    /\ inputs = <<>>
    /\ frames = <<>>
    /\ dicts = <<>>
    /\ results = <<>>
    /\ pc = "allocate"
    /\ cut = 0
    /\ dictionary = NoDictionary
    /\ NoStreams

\* writer.allocate(size); `results` keeps the writer before and after
Allocate ==
    /\ pc = "allocate"
    /\ writer.err = "none"
    /\ Len(inputs) < MaxAllocs
    /\ \E size \in AllocSizes :
        /\ writer' = allocate(writer, size)
        /\ inputs' = Append(inputs, VInt(size))
        /\ results' = Append(results, [size |-> size, was |-> writer, now |-> writer'])
    /\ UNCHANGED <<seed, dictionary, reader, frames, dicts, pc, cut>>
    /\ UNCHANGED <<encodeStream, decodeStream>>

\* writer.writeByte(value)
AllocWriteByte ==
    /\ pc = "allocate"
    /\ writer.err = "none"
    /\ writer.offset < MaxAllocs
    /\ \E value \in {1, 2} : writer' = writeByte(writer, value)
    /\ UNCHANGED <<seed, dictionary, reader, inputs, frames, dicts, results, pc, cut>>
    /\ UNCHANGED <<encodeStream, decodeStream>>

NextAlloc == Allocate \/ AllocWriteByte

SpecAlloc == InitAlloc /\ [][NextAlloc]_vars

(***************************************************************************)
(* Properties of the round trip of one value (SpecRound)                   *)
(***************************************************************************)
IsInteger(v) == v.t = "number" /\ NumIsInt(v.n)

IsFlatMember(v) == v.t \in {"boolean", "null"} \/ IsInteger(v)

IsFlat(v) ==
    \/ IsFlatMember(v)
    \/ v.t = "array" /\ \A i \in 1..Len(v.e) : IsFlatMember(v.e[i])
    \/ v.t = "object" /\ \A i \in 1..Len(v.v) : IsFlatMember(v.v[i])

\* decode returned a value structurally equal to the input
RoundTripped == results[1].err = "none" /\ Strip(results[1].v) = Strip(inputs[1])

\* C1: a boolean, null, an integer, or a vector or map of those (runs of equal
\* adjacent members included) decodes, on a new reader, to a value structurally
\* equal to the one encoded.
RoundTripFlat == pc = "decoded" /\ IsFlat(inputs[1]) => RoundTripped

\* [7, 7, 0]: a run, then a different member, has been decoded
RoundTripFlatWitness ==
    /\ pc = "decoded"
    /\ inputs[1] = VVec(1, <<VInt(7), VInt(7), VInt(0)>>)
    /\ frames[1] = <<Vector, 3, UInt8, 7, Repeat, 1, UInt8, 0>>
    /\ RoundTripped

HasString(v) ==
    \/ v.t = "string"
    \/ v.t = "array" /\ \E i \in 1..Len(v.e) : v.e[i].t = "string"
    \/ v.t = "object" /\ \E i \in 1..Len(v.v) : v.v[i].t = "string"

\* C2: a string of any length, as the top-level value, a vector element or a
\* map value, is returned unchanged at the same position by decode(encode(x)).
StringsPreserved == pc = "decoded" /\ HasString(inputs[1]) => RoundTripped

IsIntegerContainer(v) ==
    \/ v.t = "array" /\ \A i \in 1..Len(v.e) : IsInteger(v.e[i])
    \/ v.t = "object" /\ \A i \in 1..Len(v.v) : IsInteger(v.v[i])

IsNested(v) ==
    v.t = "array" /\ \A i \in 1..Len(v.e) : IsInteger(v.e[i]) \/ IsIntegerContainer(v.e[i])

\* C3: a vector whose elements are integers, vectors of integers or maps with
\* integer values, in any order, decodes to a structurally equal vector, every
\* element at its position.
NestedPreserved == pc = "decoded" /\ IsNested(inputs[1]) => RoundTripped

\* C4: a date is written as the Date tag and an 8-byte double of seconds since
\* the epoch, and decode(encode(d)) is the instant d.
DateInSeconds ==
    pc = "decoded" /\ inputs[1].t = "date" =>
        /\ frames[1][1] = Date
        /\ Len(frames[1]) = 9
        /\ NumTimes1000(DoubleValue(SubSeq(frames[1], 2, 9))) = inputs[1].ms
        /\ results[1].err = "none"
        /\ results[1].v.t = "date"
        /\ results[1].v.ms = inputs[1].ms

\* the integer types in the order of preference, each with its range
IntegerRanges ==
    << <<UInt8, NumOfInt(0), NumOfInt(255)>>,
       <<UInt16, NumOfInt(0), NumOfInt(65535)>>,
       <<UInt32, NumOfInt(0), Num(65535, 65535, 0)>>,
       <<Int8, NumOfInt(0 - 128), NumOfInt(127)>>,
       <<Int16, NumOfInt(0 - 32768), NumOfInt(32767)>>,
       <<Int32, Num(0 - 32768, 0, 0), Num(32767, 65535, 0)>> >>

Fits(n, i) == InRange(n, IntegerRanges[i][2], IntegerRanges[i][3])

\* the tag of the first range that contains n, Double when none does
NarrowestTag(n) ==
    IF \E i \in 1..Len(IntegerRanges) : Fits(n, i)
    THEN IntegerRanges[CHOOSE i \in 1..Len(IntegerRanges) :
                           Fits(n, i) /\ \A j \in 1..(i - 1) : ~Fits(n, j)][1]
    ELSE Double

\* C5: for every integer n, coreType(n), and the first byte of encode(n), is
\* the tag of the first of UInt8, UInt16, UInt32, Int8, Int16, Int32 whose range
\* contains n, and Double when none does.
TypeNarrowing ==
    pc = "encoded" /\ IsInteger(inputs[1]) =>
        /\ coreTypeOf(writer.build, inputs[1]) = NarrowestTag(inputs[1].n)
        /\ frames[1][1] = NarrowestTag(inputs[1].n)

IsNonIntegral(v) == v.t = "number" /\ ~NumIsInt(v.n)

\* C6: a number that is not integral is inferred as Double by coreType, is
\* written with the Double tag and is not truncated.
NonIntegralIsDouble ==
    /\ pc = "encoded" /\ IsNonIntegral(inputs[1]) =>
           /\ coreTypeOf(writer.build, inputs[1]) = Double
           /\ frames[1][1] = Double
    /\ pc = "decoded" /\ IsNonIntegral(inputs[1]) => RoundTripped

\* the bytes of a length prefix: one byte below 254, else 254 and 3 bytes
Prefix(n) ==
    IF n < 254 THEN <<n>> ELSE <<254, n % 256, (n \div 256) % 256, (n \div 65536) % 256>>

IsScalar(v) == v.t \in {"boolean", "null", "number", "string", "date"}

\* n >= 2 copies of one scalar
IsRun(v) ==
    /\ v.t = "array"
    /\ Len(v.e) >= 2
    /\ IsScalar(v.e[1])
    /\ \A i \in 1..Len(v.e) : v.e[i] = v.e[1]

\* the tagged encoding of a scalar by a new writer of the same seed and build
ScalarFrame(x) == getBuffer(encode(NewWriter(seed, writer.build), x))

\* C9: a vector of n >= 2 copies of one scalar is encoded as the Vector tag, the
\* length n, one tagged encoding of the scalar and one Repeat tag with the
\* length-prefixed count n - 1 (also when the count reaches 254), and decodes
\* to the n-element vector; [7, 7, 7, 7] is 06 04 0D 07 14 03.
RepeatCompressed ==
    /\ pc = "decoded" /\ IsRun(inputs[1]) =>
           /\ frames[1] = <<Vector>> \o Prefix(Len(inputs[1].e))
                              \o ScalarFrame(inputs[1].e[1])
                              \o <<Repeat>> \o Prefix(Len(inputs[1].e) - 1)
           /\ RoundTripped
    /\ pc = "decoded" /\ Strip(inputs[1]) = VVec(0, [i \in 1..4 |-> VInt(7)]) =>
           frames[1] = <<6, 4, 13, 7, 20, 3>>

\* C10: decode of the first k bytes of a frame of N bytes, 1 <= k <= N - 1, and
\* decode of a dynamic vector without its terminating None, throws an error
\* whose incomplete flag is set.
IncompleteSignal ==
    /\ pc = "truncated" /\ inputs[1].t # "dynamic" => results[1].err = "incomplete"
    /\ pc = "decoded" /\ inputs[1].t = "dynamic" /\ ~inputs[1].closed =>
           results[1].err = "incomplete"

(***************************************************************************)
(* Properties of a stream (Spec)                                           *)
(***************************************************************************)
InSeed(word) == \E k \in 1..Len(seed) : seed[k] = word

\* the i-th tag wireDictionary emitted is DictValue when its word is new to the
\* seed and to everything emitted before, DictIndex otherwise
InternedOnce ==
    \A i \in 1..Len(writer.wired) :
        writer.wired[i][1] =
            IF \/ InSeed(writer.wired[i][2])
               \/ \E j \in 1..(i - 1) : writer.wired[j][2] = writer.wired[i][2]
            THEN DictIndex ELSE DictValue

\* every map decoded so far has the keys of the map encoded
SameKeys ==
    \A i \in 1..Len(results) :
        inputs[i].t = "object" =>
            /\ results[i].err = "none"
            /\ results[i].v.t = "object"
            /\ results[i].v.k = inputs[i].k

\* C7: over any sequence of encode calls on one writer, a key not in the seed
\* is emitted as DictValue once, at its first occurrence, and as DictIndex
\* later; decoding the frames in order on one reader of the same seed yields
\* maps with the same keys.
KeysInterned == pc = "stream" => InternedOnce /\ SameKeys

\* the extended dictionary of the writer before its i-th encode call
DictBefore(i) == IF i = 1 THEN <<>> ELSE dicts[i - 1]

Holds(dict, s) == \E k \in 1..Len(dict) : dict[k] = s

\* the index of a word of the extended dictionary: the seed comes first
IndexIn(dict, s) == Len(seed) + (CHOOSE k \in 1..Len(dict) : dict[k] = s) - 1

\* a string on the wire: the length prefix of its UTF-8 bytes, then the bytes
StringPayload(s) == Prefix(Len(Utf8Bytes(s))) \o Utf8Bytes(s)

\* C8: when a string of at most 16 code units is the value of two successive
\* encode calls (the first of them its first occurrence: it is in neither
\* dictionary yet), the first frame is DictValue + the string and the second is
\* DictIndex + the index the first call assigned; with 17 code units both
\* frames are String + the string and the dictionary does not change.
ShortStringInterned ==
    \A i \in 1..(Len(inputs) - 1) :
        inputs[i].t = "string" /\ inputs[i + 1] = inputs[i] =>
            IF Len(inputs[i].s) <= 16
            THEN ~(InSeed(inputs[i].s) \/ Holds(DictBefore(i), inputs[i].s)) =>
                     /\ frames[i] = <<DictValue>> \o StringPayload(inputs[i].s)
                     /\ Holds(dicts[i], inputs[i].s)
                     /\ frames[i + 1] =
                            <<DictIndex>> \o Prefix(IndexIn(dicts[i], inputs[i].s))
            ELSE /\ frames[i] = <<String>> \o StringPayload(inputs[i].s)
                 /\ frames[i + 1] = frames[i]
                 /\ dicts[i] = DictBefore(i)
                 /\ dicts[i + 1] = DictBefore(i)

\* a 16-unit string was encoded twice after a seed of one word: index 1
ShortStringInternedWitness ==
    /\ seed = <<KeyB>>
    /\ Len(frames) >= 2
    /\ inputs[1] = VStr(Str16)
    /\ inputs[2] = VStr(Str16)
    /\ frames[1][1] = DictValue
    /\ frames[2] = <<DictIndex, 1>>

(***************************************************************************)
(* Properties of decoding hand-made frames (SpecRaw)                       *)
(***************************************************************************)
ReservedTags == (21..24) \cup (26..34)

\* the byte is a reserved code, or a code from 35 on that no extension of the reader has
IsReservedOrUnknown(b) ==
    \/ b \in ReservedTags
    \/ b \in 35..255 /\ \A i \in 1..Len(reader.extensions) : reader.extensions[i].token # b

\* C11: decode of a one-byte buffer whose byte is a reserved code (21..24,
\* 26..34) or a code in 35..255 with no extension registered for it throws an
\* error whose incomplete flag is not set.
ReservedRejected ==
    pc = "decoded" /\ Len(frames[1]) = 1 /\ IsReservedOrUnknown(frames[1][1])
        => results[1].err \notin {"none", "incomplete"}

\* the unknown code 50 was decoded by a reader that has an extension for 40
ReservedRejectedWitness ==
    /\ pc = "decoded"
    /\ frames[1] = <<50>>
    /\ Len(reader.extensions) = 1 /\ reader.extensions[1].token = 40
    /\ results[1].err = "invalid"

\* the frame has a DictIndex that is in neither dictionary when it is read:
\* the seed holds the indexes below its size, and the extended dictionary
\* holds one more once the key "a" has been read
IsDictionaryMiss(frame) ==
    \/ \E i \in RawIndexes : frame = IndexFirst(i) /\ i >= Len(seed)
    \/ \E i \in RawIndexes : frame = IndexSecond(i) /\ i > Len(seed)

\* C16: when a DictIndex read while decoding a map is in neither the seed nor
\* the extended dictionary, decode fails with an error and returns no map.
DictionaryMissFails ==
    pc = "decoded" /\ IsDictionaryMiss(frames[1]) => results[1].err # "none"

(***************************************************************************)
(* Properties of extensions (SpecExt)                                      *)
(***************************************************************************)
\* the i-th registered extension has a token and its encode serves the value
TokenClaims(i) ==
    writer.extensions[i].token # 0 - 1 /\ hostClaims(writer.extensions[i], inputs[1])

\* the i-th is the first such extension, in registration order
FirstClaims(i) ==
    TokenClaims(i) /\ \A j \in 1..(i - 1) : ~TokenClaims(j)

HasNoCoreType(v) == v.t \in {"instance", "other"}

\* C12: when an extension with token t is registered on both peers and its
\* encode claims the value, the frame's first byte is t and decode returns
\* what the extension's decode returns, the original shape; also when the
\* value is the plain object { kind: 'X' } and t = 40.
ExtensionDispatch ==
    \A i \in 1..Len(writer.extensions) :
        FirstClaims(i) =>
            /\ pc # "threw"
            /\ pc \in {"encoded", "decoded"} => frames[1][1] = writer.extensions[i].token
            /\ pc = "decoded" =>
                   results[1].err = "none" /\ Strip(results[1].v) = Strip(inputs[1])

\* C13: for a value with no core type, the token extensions are called in
\* registration order, one whose encode writes nothing is passed over, and
\* the token byte of the frame is that of the first whose encode wrote.
ExtensionOrder ==
    pc \in {"encoded", "decoded"} /\ HasNoCoreType(inputs[1]) =>
        \A i \in 1..Len(writer.extensions) :
            FirstClaims(i) => frames[1][1] = writer.extensions[i].token

\* C14: when the value has no core type and no registered extension writes
\* anything for it, encode throws a TypeError and returns no frame.
TypeErrorOnEncode ==
    (/\ pc # "input"
     /\ HasNoCoreType(inputs[1])
     /\ \A i \in 1..Len(writer.extensions) :
            ~hostClaims(writer.extensions[i], inputs[1]))
        => (pc = "threw" /\ writer.err = "TypeError" /\ frames = <<>>)

(***************************************************************************)
(* Properties of createExtension (SpecCreate)                              *)
(***************************************************************************)
\* the token is -1 or an integer in 35..254
IsAdmittedToken(token) ==
    \/ token = NumOfInt(0 - 1)
    \/ NumIsInt(token) /\ NumLeq(NumOfInt(35), token) /\ NumLeq(token, NumOfInt(254))

\* C15: createExtension(token, ...) returns an extension exactly when token
\* is -1 or an integer in 35..254; for every other token it throws a
\* TypeError and returns nothing.
TokenRange ==
    pc = "created" =>
        IF IsAdmittedToken(inputs[1].n)
        THEN results[1].err = "none" /\ NumOfInt(results[1].v.token) = inputs[1].n
        ELSE results[1].err = "TypeError" /\ results[1].v = NoExtension

\* the token 254 has been handed in and an extension with it came back
TokenRangeWitness ==
    /\ pc = "created"
    /\ inputs[1] = VInt(254)
    /\ results[1].err = "none" /\ results[1].v.token = 254

(***************************************************************************)
(* Properties of the transforms (SpecTL)                                   *)
(***************************************************************************)
\* the i-th value emitted is the i-th record
EmittedRecord(i) ==
    results[i].err = "none" /\ Strip(results[i].v) = Strip(inputs[i])

\* C17: when the frames of the records r1..rn have been delivered to TLDecode
\* in any chunking, TLDecode has emitted exactly r1..rn, each once and in
\* order.
FramesConsumed ==
    pc = "tl" /\ Len(frames) = Len(inputs) /\ cut = Len(Wire(frames)) =>
        Len(results) = Len(inputs) /\ \A i \in 1..Len(inputs) : EmittedRecord(i)

\* the frames writer.encode returns for the records, one call after another
RECURSIVE EncodedInTurn(_, _)
EncodedInTurn(w, records) ==
    LET Then(w1) == <<getBuffer(w1)>> \o EncodedInTurn(w1, Tail(records))
    IN  IF records = <<>> THEN <<>> ELSE Then(encode(w, Head(records)))

\* C18: after n records written exactly n frames have been pushed, the i-th
\* is what writer.encode returns for the i-th record, and count is n.
OneFramePerRecord ==
    pc = "tl" /\ ~encodeStream.flushed =>
        /\ Len(frames) = Len(inputs)
        /\ frames = EncodedInTurn(NewWriter(seed, "guarded"), inputs)
        /\ encodeStream.count = Len(inputs)

\* two records have been written, the second a map with the key of the first
OneFramePerRecordWitness ==
    /\ pc = "tl"
    /\ ~encodeStream.flushed
    /\ seed = <<>>
    /\ inputs = <<VMap(1, <<KeyA>>, <<VInt(1)>>), VMap(1, <<KeyA>>, <<VInt(1)>>)>>
    /\ frames = <<<<Map, DictValue, 1, 97, UInt8, 1, None>>,
                  <<Map, DictIndex, 0, UInt8, 1, None>>>>
    /\ encodeStream.count = 2

\* C19: at flush TLEncode pushes one extra frame, the empty vector 06 00, if
\* and only if no record was written and writeVectorWhenEmpty is set;
\* otherwise flush pushes nothing.
EmptyVectorAtFlush ==
    pc = "tl" /\ encodeStream.flushed =>
        IF Len(inputs) = 0 /\ encodeStream.writeVectorWhenEmpty
        THEN frames = <<<<Vector, 0>>>>
        ELSE frames = EncodedInTurn(NewWriter(seed, "guarded"), inputs)

\* the transform was flushed with no record written and the option set
EmptyVectorAtFlushWitness ==
    /\ pc = "tl"
    /\ encodeStream.flushed /\ encodeStream.writeVectorWhenEmpty
    /\ inputs = <<>>
    /\ frames = <<<<Vector, 0>>>>

\* the frame a new writer with the same seed returns for the value
FreshFrame(v) == getBuffer(encode(NewWriter(seed, "guarded"), v))

\* C20, as stated: the frame of a record depends on the record and the seed
\* only, so it is the frame a new encoder produces for it.
FrameOfRecordAlone ==
    pc = "tl" => \A i \in 1..Len(inputs) : frames[i] = FreshFrame(inputs[i])

\* C20, amended: the frame of a record is the frame a new encoder produces
\* for it as long as the records before it have interned nothing (the
\* extended dictionary of the writer is empty before the call); offset,
\* last value and repeat run do not carry over from one record to the next.
FrameOfRecordUntilInterned ==
    pc = "tl" =>
        \A i \in 1..Len(inputs) : DictBefore(i) = <<>> => frames[i] = FreshFrame(inputs[i])

\* the second of two equal records that intern nothing has the frame of the first
FrameOfRecordWitness ==
    /\ pc = "tl"
    /\ inputs = <<VInt(7), VInt(7)>>
    /\ dicts = <<<<>>, <<>>>>
    /\ frames = <<<<UInt8, 7>>, <<UInt8, 7>>>>

\* the bytes TLDecode retains
Retained ==
    IF decodeStream.incompleteBuffer.set THEN decodeStream.incompleteBuffer.bytes
    ELSE <<>>

\* what a call of _transform leaves, given the decode of the joined bytes
RetainedAfter(d, joined) ==
    IF d.r.err = "none"
    THEN /\ ~decodeStream'.incompleteBuffer.set
         /\ results' = Append(results, [err |-> "none", v |-> d.v])
    ELSE IF d.r.err = "incomplete"
    THEN /\ decodeStream'.incompleteBuffer = [set |-> TRUE, bytes |-> joined]
         /\ results' = results
    ELSE /\ ~decodeStream'.incompleteBuffer.set
         /\ results' = Append(results, [err |-> d.r.err, v |-> VUndef])

\* a step in which a chunk reaches TLDecode
RetainedStep ==
    (pc = "tl" /\ cut' > cut)
        => RetainedAfter(decode(reader, Retained \o SubSeq(Wire(frames), cut + 1, cut')),
                         Retained \o SubSeq(Wire(frames), cut + 1, cut'))

RECURSIVE WrittenVector(_)
WrittenVector(script) ==
    VVec(0, [i \in 1..Len(script.e) |->
                IF script.e[i].t = "dynamic" THEN WrittenVector(script.e[i])
                ELSE Strip(script.e[i])])

\* C30: for any sequence of core values (equal adjacent scalars and nested
\* dynamic vectors included) written with writeObject between
\* startDynamicVector() and endDynamicVector() on a fresh writer, readObject
\* on the resulting bytes returns a vector of exactly those values, in order
\* and of the same length.
DynamicRoundTrip ==
    (pc = "decoded" /\ inputs[1].t = "dynamic" /\ inputs[1].closed)
        => (/\ results[1].err = "none"
            /\ results[1].v.t = "array"
            /\ Len(results[1].v.e) = Len(inputs[1].e)
            /\ Strip(results[1].v) = WrittenVector(inputs[1]))

(***************************************************************************)
(* Properties of vectors with absent elements, under SpecRound            *)
(***************************************************************************)
IsSparse(v) ==
    /\ v.t = "array"
    /\ \E i \in 1..Len(v.e) : v.e[i] = VUndef
    /\ \A i \in 1..Len(v.e) : v.e[i] = VUndef \/ IsInteger(v.e[i])

\* the vector with null at every absent position
NullForAbsent(v) ==
    VVec(0, [i \in 1..Len(v.e) |-> IF v.e[i] = VUndef THEN VNull ELSE v.e[i]])

\* C31: for every vector v of integers in which some positions are absent
\* (undefined), the frame carries the length prefix |v| and
\* decode(encode(v)) is a vector of length |v| with null at every absent
\* position and the original integer at every other position.
AbsentAsNull ==
    /\ (pc \in {"encoded", "decoded"} /\ IsSparse(inputs[1]))
           => SubSeq(frames[1], 1, 2) = <<Vector, Len(inputs[1].e)>>
    /\ (pc = "decoded" /\ IsSparse(inputs[1]))
           => (/\ results[1].err = "none"
               /\ Strip(results[1].v) = NullForAbsent(inputs[1]))

(***************************************************************************)
(* Properties of the dictionaries of two peers, under Spec                 *)
(***************************************************************************)
IsIntegerMap(v) == v.t = "object" /\ \A i \in 1..Len(v.v) : IsInteger(v.v[i])

\* the words the writer's extended dictionary held after the n-th encode
DictAfter(n) == IF n = 0 THEN <<>> ELSE dicts[n]

\* the index wireDictionary emits for a word the writer holds
WriterIndex(word) ==
    IF InSeed(word) THEN getIndex(writer.dictionary, word)
    ELSE getIndex(writer.dictionaryExtended, word)

\* the reader holds the seed at 0..seed.size-1 and, after n frames, the words
\* the writer held after n encodes, at seed.size + insertion order
SameWords(n) ==
    /\ \A k \in 1..Len(seed) : getValue(reader.dictionary, k - 1) = seed[k]
    /\ reader.dictionaryExtended.index = DictAfter(n)
    /\ \A k \in 1..Len(DictAfter(n)) :
           /\ getIndex(reader.dictionaryExtended, DictAfter(n)[k]) = Len(seed) + k - 1
           /\ getValue(reader.dictionaryExtended, Len(seed) + k - 1) = DictAfter(n)[k]

\* every DictIndex emitted is for a seeded word or a word emitted earlier as
\* DictValue
IndexAfterValue ==
    \A i \in 1..Len(writer.wired) :
        writer.wired[i][1] = DictIndex =>
            \/ InSeed(writer.wired[i][2])
            \/ \E j \in 1..(i - 1) : writer.wired[j] = <<DictValue, writer.wired[i][2]>>

\* once the reader has decoded every frame, each index the writer emitted
\* resolves on the reader to the word the writer looked up
IndexResolves ==
    Len(results) = Len(frames) =>
        \A i \in 1..Len(writer.wired) :
            getDictionaryValue(reader, WriterIndex(writer.wired[i][2])) = writer.wired[i][2]

\* C24: for any sequence of maps with integer values encoded by one writer
\* and decoded in the same order by one reader built with the same seed,
\* after every frame the reader's extended dictionary holds the same words at
\* the same absolute indices as the writer's, and every DictIndex emitted
\* refers to a seeded word or to a word emitted earlier as DictValue and
\* resolves on the reader to the word the writer looked up.
PeersInStep ==
    (pc = "stream" /\ \A i \in 1..Len(inputs) : IsIntegerMap(inputs[i]))
        => (SameWords(Len(results)) /\ IndexAfterValue /\ IndexResolves /\ SameKeys)

\* with the seed ["b"], { a: 1 } and then { b: 1, a: 2 } have been decoded:
\* the second frame is indices only, 0 for the seeded "b" and 1 for "a"
PeersInStepWitness ==
    /\ pc = "stream"
    /\ seed = <<KeyB>>
    /\ inputs = <<VMap(1, <<KeyA>>, <<VInt(1)>>), VMap(1, <<KeyB, KeyA>>, <<VInt(1), VInt(2)>>)>>
    /\ frames[2] = <<Map, DictIndex, 0, UInt8, 1, DictIndex, 1, UInt8, 2, None>>
    /\ Len(results) = 2
    /\ reader.dictionaryExtended.index = <<KeyA>>
    /\ Strip(results[2].v) = Strip(inputs[2])

(***************************************************************************)
(* Properties of a retry after an incomplete decode, under SpecRound       *)
(***************************************************************************)
\* the retry returned what `once`, a single decode of the whole frame on a
\* new reader, returns, and left the same extended dictionary
SameAsOnce(once) ==
    /\ results[2] = Outcome(once)
    /\ reader.dictionaryExtended = once.r.dictionaryExtended

\* C33: if the frame of a map with integer values is delivered to one
\* reader first truncated at any point (decode fails with incomplete,
\* possibly after reading some DictValue keys) and then in full, the value
\* returned and the reader's extended dictionary (words and indices) are
\* those of a single decode of the full frame.
RetryIdempotent ==
    (pc = "retried" /\ IsIntegerMap(inputs[1]) /\ results[1].err = "incomplete")
        => (/\ SameAsOnce(decode(NewReader(<<>>, seed), frames[1]))
            /\ results[2].err = "none"
            /\ Strip(results[2].v) = Strip(inputs[1]))

\* { a: 7, b: -1 } cut after the key "a", then decoded in full: the
\* dictionary holds "a" and "b" once each
RetryIdempotentWitness ==
    /\ pc = "retried"
    /\ seed = <<>>
    /\ inputs[1] = VMap(1, <<KeyA, KeyB>>, <<VInt(7), VInt(0 - 1)>>)
    /\ frames[1] = <<Map, DictValue, 1, 97, UInt8, 7, DictValue, 1, 98, Int8, 255, None>>
    /\ cut = 4
    /\ results[1].err = "incomplete"
    /\ results[2].err = "none"
    /\ reader.dictionaryExtended.index = <<KeyA, KeyB>>

(***************************************************************************)
(* Properties of the repeat compression, under SpecRound                   *)
(***************************************************************************)
IsContainer(v) == v.t \in {"array", "object"}

\* C21: in every output of the encoder a Repeat tag stands for a scalar:
\* a vector or a map, an empty one written twice in a row as the same
\* object included, is written in full and never as a Repeat.
ContainersNeverRepeat ==
    pc \in {"encoded", "decoded", "truncated"}
        => \A v \in writer.repeated : ~IsContainer(v)

\* C22: when decode throws, incomplete or otherwise, the dictionary state
\* of the decoder is what it was before the call: no key read from a
\* DictValue entry of the failed input is retained.
DictionaryRestoredOnError ==
    (pc = "truncated" /\ results[1].err # "none")
        => reader.dictionaryExtended = NewReader(<<>>, seed).dictionaryExtended

(***************************************************************************)
(* Properties of a Dictionary, under SpecDict                              *)
(***************************************************************************)
\* the distinct words handed to the constructor and to maybeInsert
WordsGiven ==
    {dictionary.words[i] : i \in 1..Len(dictionary.words)}
        \cup {dictionary.calls[i].word : i \in 1..Len(dictionary.calls)}

\* C25: after construction from any word list and any sequence of
\* maybeInsert calls, size is the number of distinct words,
\* getValue(getIndex(w)) = w for every word held, getIndex(getValue(i)) = i
\* for every i in offset..offset+size-1, inserting a word already present
\* changes nothing, and the index of a word never changes once assigned.
DictionaryInvariant ==
    pc = "dictionary" =>
        /\ DictSize(dictionary.d) = Cardinality(WordsGiven)
        /\ \A w \in WordsGiven :
               /\ getIndex(dictionary.d, w) # NoIndex
               /\ getValue(dictionary.d, getIndex(dictionary.d, w)) = w
               /\ maybeInsert(dictionary.d, w) = dictionary.d
               /\ getIndex(dictionary.d, w) = dictionary.assigned[w]
        /\ \A i \in dictionary.d.offset
                        ..(dictionary.d.offset + DictSize(dictionary.d) - 1) :
               /\ getValue(dictionary.d, i) # NoWord
               /\ getIndex(dictionary.d, getValue(dictionary.d, i)) = i

\* new Dictionary(["b", "b"], 2), then maybeInsert of "a", "b", "a": the
\* dictionary holds "b" at 2 and "a" at 3
DictionaryInvariantWitness ==
    /\ pc = "dictionary"
    /\ dictionary.words = <<KeyB, KeyB>>
    /\ dictionary.d.offset = 2
    /\ Len(dictionary.calls) = 3
    /\ dictionary.calls[1].word = KeyA
    /\ dictionary.calls[2].word = KeyB
    /\ dictionary.calls[3].word = KeyA
    /\ DictSize(dictionary.d) = 2
    /\ getIndex(dictionary.d, KeyB) = 2
    /\ getIndex(dictionary.d, KeyA) = 3

\* C26: maybeInsert(word), for a word not yet present, returns the new
\* absolute index of the word: the number getIndex(word) returns right after
\* and getValue maps back to the word; for a word already present it
\* returns nothing.
InsertReturnsIndex ==
    pc = "dictionary" =>
        \A k \in 1..Len(dictionary.calls) :
            IF dictionary.calls[k].held
            THEN dictionary.calls[k].returned = NoIndex
            ELSE /\ dictionary.calls[k].returned = dictionary.calls[k].index
                 /\ getValue(dictionary.d, dictionary.calls[k].returned)
                        = dictionary.calls[k].word

(***************************************************************************)
(* Properties of writeString, under SpecString                             *)
(***************************************************************************)
\* the UTF-8 byte length of the string written
ByteLength == Len(Utf8Bytes(inputs[1].s))

\* C27: writeString emits the length prefix of the format for the UTF-8
\* byte length L of the string, the one writeLength(L) emits: the single
\* byte L when L < 254, and 254 followed by L as 3 little-endian bytes only
\* when L >= 254; readLength then returns L.
StringPrefixIsLength ==
    /\ pc \in {"written", "read"} =>
           /\ frames[1] = Prefix(ByteLength) \o Utf8Bytes(inputs[1].s)
           /\ frames[1] = getBuffer(writeLength(NewWriter(seed, "guarded"), ByteLength))
                              \o Utf8Bytes(inputs[1].s)
    /\ pc = "read" => results[1] = [err |-> "none", v |-> ByteLength]

(***************************************************************************)
(* Properties of two frames in one buffer, under SpecPair                  *)
(***************************************************************************)
\* the i-th read returned a value structurally equal to the i-th input
ReturnedInput(i) ==
    results[i].err = "none" /\ Strip(results[i].v) = Strip(inputs[i])

\* C23: for frames f1 and f2 produced by encode, decode(f1 ++ f2) returns
\* the value of f1 and leaves tellPosition() at the length of f1 with no
\* repeat pool pending, and the readObject that follows returns the value
\* of f2.
OneValueConsumed ==
    /\ pc \in {"first", "second"} => ReturnedInput(1)
    /\ pc = "first" => /\ tellPosition(reader) = Len(frames[1])
                       /\ ~(reader.repeat.on /\ reader.repeat.pool > 0)
    /\ pc = "second" => ReturnedInput(2)

\* C28: a repeat run is closed by whatever is written next: once a byte
\* has been written after the count of a run (by writeObject of another
\* value, by an extension encoder, by the Null of an absent vector element
\* or by a typed writer), a later writeObject of the run's value does not
\* move the offset back to the count, and no byte written after the run is
\* overwritten or cut off from the output.
RunClosedByNextWrite == writer.cutOff = <<>>

(***************************************************************************)
(* Properties of a hand-made Repeat, under SpecRepeat                      *)
(***************************************************************************)
\* the count of the Repeat
Copies == inputs[2].n.lo

\* the offset after k reads: past the value, then past the Repeat tag and its
\* count for as long as copies are returned, then past the following value
OffsetAfter(k) ==
    IF k = 0 THEN 0
    ELSE IF k = 1 THEN Len(FrameOf(inputs[1]))
    ELSE IF k <= Copies + 1 THEN Len(FrameOf(inputs[1])) + 1 + Len(Prefix(Copies))
    ELSE Len(frames[1])

\* C29: for every count n >= 0, a value v followed by a Repeat tag with the
\* length-prefixed count n, read by successive readObject calls, yields v
\* and then exactly n more copies of v; the copies consume no bytes other
\* than the Repeat tag and its length prefix, and the readObject after them
\* reads the following tag.
RepeatYieldsCount ==
    pc = "repeat" =>
        /\ \A k \in 1..Len(results) :
               /\ results[k].err = "none"
               /\ Strip(results[k].v)
                      = IF k <= Copies + 1 THEN Strip(inputs[1]) ELSE Following
        /\ tellPosition(reader) = OffsetAfter(Len(results))

(***************************************************************************)
(* Properties of a writer built with the gzip option (SpecGzip)            *)
(***************************************************************************)
\* the length prefix of n, and bytes behind the prefix of their length
LengthPrefix(n) == IF n < 254 THEN <<n>> ELSE LengthBytes(n)

Counted(bytes) == LengthPrefix(Len(bytes)) \o bytes

Knows(known, word) == \E k \in 1..Len(known) : known[k] = word

KnownIndex(known, word) == (CHOOSE k \in 1..Len(known) : known[k] = word) - 1

\* a word on the wire, uncompressed: DictIndex and its index when the word
\* is known, DictValue and the word, which is known from then on, when not.
\* `at` is the bytes emitted so far and the words known so far, the seed
\* first.
EmitWord(at, word) ==
    IF Knows(at.known, word)
    THEN [bytes |-> at.bytes \o <<DictIndex>> \o LengthPrefix(KnownIndex(at.known, word)),
          known |-> at.known]
    ELSE [bytes |-> at.bytes \o <<DictValue>> \o Counted(Utf8Bytes(word)),
          known |-> Append(at.known, word)]

\* what an encoder that does not compress emits for a string alone
ChildEmits(known, s) ==
    IF Len(s) <= 16 THEN EmitWord([bytes |-> <<>>, known |-> known], s)
    ELSE [bytes |-> <<String>> \o Counted(Utf8Bytes(s)), known |-> known]

\* a string on the wire: the GZIP tag and, behind its length, the child's
\* bytes deflated; what the child came to know is known afterwards
EmitGzip(at, s) ==
    LET Of(child) ==
            [bytes |-> at.bytes \o <<GZIP>> \o Counted(deflateRaw(child.bytes)),
             known |-> child.known]
    IN  Of(ChildEmits(at.known, s))

\* a string, the integer 7, or a vector or a map of these
RECURSIVE EmitMembers(_, _, _)
EmitValue(at, v) ==
    CASE v.t = "string" -> EmitGzip(at, v.s)
      [] v.t = "number" -> [at EXCEPT !.bytes = @ \o <<UInt8, v.n.lo>>]
      [] v.t = "array" ->
             EmitMembers([at EXCEPT !.bytes = @ \o <<Vector>> \o LengthPrefix(Len(v.e))],
                         v, 1)
      [] v.t = "object" ->
             [EmitMembers([at EXCEPT !.bytes = @ \o <<Map>>], v, 1)
                 EXCEPT !.bytes = @ \o <<None>>]

EmitMembers(at, v, i) ==
    IF v.t = "array"
    THEN IF i > Len(v.e) THEN at ELSE EmitMembers(EmitValue(at, v.e[i]), v, i + 1)
    ELSE IF i > Len(v.k) THEN at
    ELSE EmitMembers(EmitValue(EmitWord(at, v.k[i]), v.v[i]), v, i + 1)

\* the frame of the i-th value and the words known after it, when every
\* string is a GZIP payload
Emitted(i) ==
    EmitValue([bytes |-> <<>>, known |-> seed \o DictAfter(i - 1)], inputs[i])

AsEmitted(i) ==
    /\ frames[i] = Emitted(i).bytes
    /\ seed \o dicts[i] = Emitted(i).known

\* no element of a vector equals the element before it
NoRun(v) == v.t = "array" => \A i \in 2..Len(v.e) : v.e[i] # v.e[i - 1]

KeepsWritten(call) ==
    /\ call.now.offset = call.was.offset
    /\ getBuffer(call.now) = getBuffer(call.was)

\* C35: whenever allocate(n) returns without error, the bytes at positions
\* 0..offset-1 are the same as before the call and capacity - 10 >=
\* offset + n; when offset + n exceeds MAX_BUFFER_SIZE it throws 'Packed
\* buffer would be larger than maximum buffer size' instead.
AllocateMakesRoom ==
    pc = "allocate" =>
        \A i \in 1..Len(results) :
            /\ results[i].now.err = "none" =>
                   /\ KeepsWritten(results[i])
                   /\ results[i].now.cap - 10 >= results[i].was.offset + results[i].size
            /\ results[i].was.offset + results[i].size > MAX_BUFFER_SIZE =>
                   results[i].now.err = "larger than maximum"

(***************************************************************************)
(* States in which the code departs from a property above                  *)
(***************************************************************************)
\* encode("abc") is DictValue + the string, and decode of it throws
\* "Invalid constructor"
ShortStringThrows ==
    /\ pc = "decoded"
    /\ inputs[1] = VStr(<<97, 98, 99>>)
    /\ frames[1] = <<DictValue, 3, 97, 98, 99>>
    /\ results[1].err = "invalid"

\* [[1], 1] is written with a Repeat for its second element and decodes to
\* [[1], [1]]
NestedRepeatDiverges ==
    /\ pc = "decoded"
    /\ inputs[1] = VVec(1, <<VVec(2, <<VInt(1)>>), VInt(1)>>)
    /\ frames[1] = <<Vector, 2, Vector, 1, UInt8, 1, Repeat, 1>>
    /\ results[1].err = "none"
    /\ results[1].v = VVec(0, <<VVec(0, <<VInt(1)>>), VVec(0, <<VInt(1)>>)>>)

\* new Date(1000) is written as the double 1000 and decodes to new Date(1000000)
DateInMilliseconds ==
    /\ pc = "decoded"
    /\ inputs[1] = VDate(9, NumOfInt(1000))
    /\ frames[1] = <<Date, 0, 0, 0, 0, 0, 64, 143, 64>>
    /\ results[1].err = "none"
    /\ results[1].v = VDate(0, NumOfInt(1000000))

\* with the guarded coreType, 2^31 is written as a Double
UInt32AsDouble ==
    /\ pc = "encoded"
    /\ writer.build = "guarded"
    /\ inputs[1] = VNum(Num(32768, 0, 0))
    /\ coreType(inputs[1]) = Double
    /\ frames[1] = <<Double, 0, 0, 0, 0, 0, 0, 224, 65>>

\* with the coreType of src/src/helpers.ts, 1.5 is written as the UInt8 1
HalfAsUInt8 ==
    /\ pc = "decoded"
    /\ writer.build = "legacy"
    /\ inputs[1] = VNum(Num(0, 1, 1))
    /\ coreTypeLegacy(inputs[1]) = UInt8
    /\ frames[1] = <<UInt8, 1>>
    /\ results[1].v = VInt(1)

\* encode("a"), encode({a: 1}): the first decode throws, the reader does not
\* learn "a", and the map decodes with the key "undefined"
KeysOutOfStep ==
    /\ pc = "stream"
    /\ seed = <<>>
    /\ inputs = <<VStr(KeyA), VMap(1, <<KeyA>>, <<VInt(1)>>)>>
    /\ frames = << <<DictValue, 1, 97>>, <<Map, DictIndex, 0, UInt8, 1, None>> >>
    /\ Len(results) = 2
    /\ results[1].err = "invalid"
    /\ results[2].err = "none"
    /\ results[2].v.k = <<UndefinedName>>

\* ["ab", "ab"] is written with a Repeat, and decode of it throws
ShortStringRunThrows ==
    /\ pc = "decoded"
    /\ inputs[1] = VVec(1, <<VStr(<<97, 98>>), VStr(<<97, 98>>)>>)
    /\ frames[1] = <<Vector, 2, DictValue, 2, 97, 98, Repeat, 1>>
    /\ results[1].err = "invalid"

\* the first byte of encode("abc") alone: decode throws "Invalid constructor",
\* an error without the incomplete flag
PrefixThrowsInvalid ==
    /\ pc = "truncated"
    /\ inputs[1] = VStr(<<97, 98, 99>>)
    /\ cut = 1
    /\ results[1].err = "invalid"

\* C16: decode of Map, DictIndex 2, UInt8 1, None with empty dictionaries
\* returned the map { undefined: 1 }
MissReturnsPlaceholder ==
    /\ pc = "decoded"
    /\ seed = <<>>
    /\ frames[1] = IndexFirst(2)
    /\ results[1].err = "none"
    /\ results[1].v = VMap(0, <<UndefinedName>>, <<VInt(1)>>)

\* C12: with an extension of token 40 for the objects of kind 'X', the frame
\* of { kind: 'X' } starts with the Map tag
KindEncodedAsMap ==
    /\ pc = "encoded"
    /\ Len(writer.extensions) = 1
    /\ writer.extensions[1] = [token |-> 40, cls |-> "kind"]
    /\ inputs[1] = VMap(1, <<KindKey>>, <<KindX>>)
    /\ frames[1][1] = Map

\* C13: with the extensions 41 for Y and 40 for X registered in this order,
\* the frame of an instance of X is the single byte 41
SilentExtensionWins ==
    /\ pc = "encoded"
    /\ writer.extensions = <<[token |-> 41, cls |-> "Y"], [token |-> 40, cls |-> "X"]>>
    /\ inputs[1] = VInstance(1, "X", 1)
    /\ frames[1] = <<41>>

\* C14: with an extension of token 40 for X, encode of an object that no
\* handler serves returns the frame 40 and throws nothing
UnclaimedValueEncoded ==
    /\ pc = "encoded"
    /\ writer.extensions = <<[token |-> 40, cls |-> "X"]>>
    /\ inputs[1] = VOther(1)
    /\ writer.err = "none"
    /\ frames[1] = <<40>>

\* C17: the frames of the records 7 and 300 reached TLDecode as one chunk,
\* and only 7 was emitted
SecondFrameDropped ==
    /\ pc = "tl"
    /\ inputs = <<VInt(7), VInt(300)>>
    /\ Len(frames) = 2 /\ cut = Len(Wire(frames))
    /\ ~decodeStream.incompleteBuffer.set
    /\ results = <<[err |-> "none", v |-> VInt(7)]>>

\* C20: the second record { a: 1 } has the frame Map, DictIndex 0, UInt8 1,
\* None, where a new encoder writes the key
FrameDependsOnEarlierRecord ==
    /\ pc = "tl"
    /\ seed = <<>>
    /\ inputs = <<VMap(1, <<KeyA>>, <<VInt(1)>>), VMap(1, <<KeyA>>, <<VInt(1)>>)>>
    /\ frames[2] = <<Map, DictIndex, 0, UInt8, 1, None>>

\* C21: the empty vector that is twice in a row an element of a vector is
\* written the second time as Repeat 1
EmptyVectorRepeated ==
    /\ pc = "encoded"
    /\ inputs[1] = VVec(1, <<VVec(5, <<>>), VVec(5, <<>>)>>)
    /\ frames[1] = <<Vector, 2, Vector, 0, Repeat, 1>>
    /\ VVec(5, <<>>) \in writer.repeated

\* C22: the decode of the first 4 bytes of the frame of { a: 7 } throws
\* incomplete and leaves the key "a" in the reader's dictionary
KeyRetainedAfterError ==
    /\ pc = "truncated"
    /\ seed = <<>>
    /\ inputs[1] = VMap(1, <<KeyA>>, <<VInt(7)>>)
    /\ frames[1] = <<Map, DictValue, 1, 97, UInt8, 7, None>>
    /\ cut = 4
    /\ results[1].err = "incomplete"
    /\ reader.dictionaryExtended.index = <<KeyA>>

\* C23: decode of the frame of "a" followed by the frame of 7 throws
\* "Invalid constructor" at the DictValue tag and returns no value
FirstOfPairThrows ==
    /\ pc = "first"
    /\ inputs = <<VStr(KeyA), VInt(7)>>
    /\ frames = <<<<DictValue, 1, 97>>, <<UInt8, 7>>>>
    /\ results[1].err = "invalid"

\* C23: the frame of [7, 7, undefined, 7] holds three values for a count of
\* four, and the decode of it reads its fourth element from the next frame
DecodeReadsIntoNextFrame ==
    /\ pc = "first"
    /\ inputs = <<VVec(1, <<VInt(7), VInt(7), VUndef, VInt(7)>>), VInt(300)>>
    /\ frames[1] = <<Vector, 4, UInt8, 7, Repeat, 2>>
    /\ results[1].err = "none"
    /\ tellPosition(reader) = Len(frames[1]) + Len(frames[2])

\* C26: on new Dictionary(), maybeInsert("a") returns 1 and getIndex("a")
\* returns 0 right after
InsertReturnsSize ==
    /\ pc = "dictionary"
    /\ dictionary.words = <<>>
    /\ dictionary.d.offset = 0
    /\ dictionary.calls = <<[word |-> KeyA, held |-> FALSE, returned |-> 1, index |-> 0]>>
    /\ getValue(dictionary.d, 1) = NoWord

\* C27: the string of 64 "a" has 64 UTF-8 bytes, and writeString prefixes
\* it with 254, 64, 0, 0 where writeLength(64) is the single byte 64
LongPrefixForShortString ==
    /\ pc = "read"
    /\ inputs[1] = VStr([i \in 1..64 |-> 97])
    /\ SubSeq(frames[1], 1, 4) = <<254, 64, 0, 0>>
    /\ Len(frames[1]) = 68
    /\ getBuffer(writeLength(NewWriter(seed, "guarded"), 64)) = <<64>>
    /\ results[1] = [err |-> "none", v |-> 64]

\* C28: in [7, 7, undefined, 7] the Null written for the absent element
\* does not close the run of 7: the last 7 moves the offset back to the
\* count, and the frame is Vector 4, UInt8 7, Repeat 2 with the Null cut off
RunReopenedAfterNull ==
    /\ pc = "pair"
    /\ inputs = <<VVec(1, <<VInt(7), VInt(7), VUndef, VInt(7)>>)>>
    /\ frames = <<<<Vector, 4, UInt8, 7, Repeat, 2>>>>
    /\ writer.cutOff = <<Null>>

\* C29: after UInt8 7, Repeat 0, UInt8 9 the second readObject returns a
\* copy of 7, where a count of 0 asks for none
RepeatZeroYieldsCopy ==
    /\ pc = "repeat"
    /\ inputs = <<VInt(7), VInt(0)>>
    /\ frames[1] = <<UInt8, 7, Repeat, 0, UInt8, 9>>
    /\ Len(results) = 2
    /\ results[2] = [err |-> "none", v |-> VInt(7)]
    /\ tellPosition(reader) = 4

\* C30: writeObject(1) twice in a dynamic vector is written UInt8 1,
\* Repeat 1, and the reader returns [1, undefined]
DynamicRepeatUndefined ==
    /\ pc = "decoded"
    /\ inputs[1].t = "dynamic"
    /\ inputs[1].e = <<VInt(1), VInt(1)>>
    /\ frames[1] = <<VectorDynamic, UInt8, 1, Repeat, 1, None>>
    /\ results[1] = [err |-> "none", v |-> VVec(0, <<VInt(1), VUndef>>)]

\* C31: [7, undefined, 7] is written UInt8 7, Null, Repeat 1 and decodes to
\* [7, null, null]
AbsentThenRepeat ==
    /\ pc = "decoded"
    /\ inputs[1] = VVec(1, <<VInt(7), VUndef, VInt(7)>>)
    /\ frames[1] = <<Vector, 3, UInt8, 7, Null, Repeat, 1>>
    /\ results[1].err = "none"
    /\ Strip(results[1].v) = VVec(0, <<VInt(7), VNull, VNull>>)

\* C34: ["a", "a"] was encoded with gzip enabled: the second "a" is the
\* Repeat marker with count 1, not a second payload
RepeatedStringNotGzipped ==
    /\ pc = "gzip"
    /\ seed = <<>>
    /\ inputs = <<VVec(1, <<VStr(KeyA), VStr(KeyA)>>)>>
    /\ frames[1] = <<Vector, 2, GZIP, 8>> \o deflateRaw(<<DictValue, 1, 97>>)
                       \o <<Repeat, 1>>

\* C35: after two bytes were written, allocate(MAX_BUFFER_SIZE - 10)
\* returned with the two bytes kept and a buffer of MAX_BUFFER_SIZE bytes,
\* eight bytes short of the margin
NoMarginAtMaximum ==
    /\ pc = "allocate"
    /\ Len(results) = 1
    /\ results[1].size = MAX_BUFFER_SIZE - 10
    /\ results[1].was.offset = 2
    /\ results[1].now.err = "none"
    /\ KeepsWritten(results[1])
    /\ results[1].now.cap = MAX_BUFFER_SIZE
    /\ results[1].now.cap - 10 = results[1].was.offset + results[1].size - 2

====
